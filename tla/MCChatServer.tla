---------------------------- MODULE MCChatServer ----------------------------
(* ChatServer for TLC: the handler threads are interchangeable.            *)
EXTENDS ChatServer, TLC

ThreadSymmetry == Permutations(Threads)
=============================================================================
