---------------------------- MODULE MCFramePool ----------------------------
(* Two frames and three threads: more sleepers than frames, so that a      *)
(* woken thread can lose its frame to one that never slept.                *)
EXTENDS FramePool
CONSTANTS f1, f2, t1, t2, t3
FramesMC  == {f1, f2}
ThreadsMC == {t1, t2, t3}
=============================================================================
