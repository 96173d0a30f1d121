---------------------------- MODULE MCHTTPSession ----------------------------
(***************************************************************************)
(* HTTPSession by itself, with a GET and a HEAD of one complete response.  *)
(***************************************************************************)
EXTENDS HTTPSession

\* A GET that is answered with a whole body of known length.
Plain == [via |-> "http", method |-> "GET", responseType |-> "", cookies |-> {},
          refused |-> FALSE, status |-> 200, sized |-> TRUE, length |-> 2, arrives |-> 2,
          sets |-> {}, clears |-> {}]

MCTraffic == {[Plain EXCEPT !.method = m, !.responseType = "text"] : m \in {"GET", "HEAD"}}
=============================================================================
