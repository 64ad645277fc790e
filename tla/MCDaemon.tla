------------------------------ MODULE MCDaemon ------------------------------
(***************************************************************************)
(* Instances of Daemon for TLC.                                            *)
(***************************************************************************)
EXTENDS Daemon

CONSTANTS c1, c2, n1, n2, n3

\* Clients idle while emails arrive; the daemon stops while emails arrive; the
\* files change and the daemon is told, and may stop.
MCBounds ==
  {[idles |-> MaxIdles, updates |-> 2, edits |-> 0, hups |-> 0, ends |-> 0],
   [idles |-> 0, updates |-> 3, edits |-> 0, hups |-> 0, ends |-> 1],
   [idles |-> 0, updates |-> 0, edits |-> 2, hups |-> 3, ends |-> 1]}
=============================================================================
