---------------------------- MODULE MCDispatcher ----------------------------
(* Dispatcher with two dispatcher threads, as main() starts, one or two    *)
(* other threads and two or three actors.                                  *)
EXTENDS Dispatcher, TLC

DispatcherSymmetry ==
  Permutations(Threads) \cup Permutations(Senders) \cup Permutations(Actors)
=============================================================================
