----------------------------- MODULE MCSimPage -----------------------------
(* An instance of SimPage for TLC: three pages over two frames and over a  *)
(* single frame, where last_c and curr_c point to the same entry.          *)
EXTENDS SimPage
=============================================================================
