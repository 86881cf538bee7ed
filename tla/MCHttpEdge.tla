----------------------------- MODULE MCHttpEdge -----------------------------
(* Bodies of up to three frames around a limit of two bytes, and a limit of *)
(* zero, which switches the middleware off.                                 *)
EXTENDS HttpEdge

MCBodies == {<<0>>, <<1>>, <<2>>, <<3>>, <<1, 1>>, <<1, 2>>, <<2, 1, 1>>, <<1, 0, 1>>}
=============================================================================
