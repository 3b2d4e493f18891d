------------------------------ MODULE MCFrtMutex ------------------------------
(***************************************************************************)
(* Small instances of FrtMutex for TLC.                                       *)
(***************************************************************************)
EXTENDS FrtMutex

CONSTANTS lo, mid, hi, m1, m2

Take(m, w) == [op |-> "take", mutex |-> m, wait |-> w]
GiveUp(m)  == [op |-> "give", mutex |-> m, wait |-> 0]
Sleep(n)   == [op |-> "delay", mutex |-> m1, wait |-> n]

Prios == lo :> 1 @@ mid :> 2 @@ hi :> 3

\* One mutex: the holder sleeps on it, the others wait with and without a limit.
SingleScripts == lo  :> <<Take(m1, 3), Sleep(1), GiveUp(m1), Take(m1, 1), GiveUp(m1)>>
              @@ mid :> <<Sleep(1), Take(m1, 2), Sleep(1), GiveUp(m1)>>
              @@ hi  :> <<Sleep(1), Take(m1, 1), GiveUp(m1), Take(m1, 3), Sleep(2), GiveUp(m1)>>

\* Two mutexes held at once.
NestedScripts == lo  :> <<Take(m1, 3), Take(m2, 2), Sleep(1), GiveUp(m2), Sleep(1), GiveUp(m1)>>
              @@ mid :> <<Sleep(1), Take(m1, 2), GiveUp(m1), Take(m2, 1), GiveUp(m2)>>
              @@ hi  :> <<Sleep(1), Take(m2, 3), Sleep(1), GiveUp(m2), Take(m1, 3), GiveUp(m1)>>

\* Two wait for one mutex, and the more urgent one gives up as the holder gives it back.
CrowdScripts == lo  :> <<Sleep(1), Take(m1, 3), GiveUp(m1)>>
             @@ mid :> <<Take(m1, 3), Sleep(3), GiveUp(m1), Take(m1, 2), GiveUp(m1)>>
             @@ hi  :> <<Sleep(2), Take(m1, 1), Sleep(1)>>

MCPrograms == {SingleScripts, NestedScripts, CrowdScripts}
===============================================================================
