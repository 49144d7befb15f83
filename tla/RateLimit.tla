----------------------------- MODULE RateLimit -----------------------------
(***************************************************************************)
(* What the limiter promises about one key, without Redis: one leaky bucket *)
(* per rate, which drains all the time, is charged for every request that  *)
(* is let through, and lets none through that does not fit in all of them. *)
(* Rejecting a request is a stuttering step: the promise is an upper bound  *)
(* on what passes.  Losing the stored state empties the buckets and is     *)
(* counted.                                                                *)
(*                                                                         *)
(* A window is what an observer of the traffic measures: it opens at any   *)
(* moment and counts the ticks that go by, the tokens let through, and the *)
(* losses of state.  WindowBound is the rate limit as users understand it. *)
(***************************************************************************)
EXTENDS Integers

CONSTANTS
    Rates,          \* the policies, a function: rate |-> [flow, burst]
    Costs,          \* the costs of requests
    MaxWindow,      \* bound: ticks after which a window closes
    MaxLosses       \* bound: losses after which a window closes

VARIABLES
    level,          \* rate |-> tokens in its bucket
    window          \* what the observer has counted

vars == << level, window >>

Positive(n) == IF n >= 0 THEN n ELSE 0

Closed == [open |-> FALSE, ticks |-> 0, spent |-> 0, losses |-> 0]

Opened == [open |-> TRUE, ticks |-> 0, spent |-> 0, losses |-> 0]

Empty == [i \in DOMAIN Rates |-> 0]

Drain(l) == [i \in DOMAIN Rates |-> Positive(l[i] - Rates[i].flow)]

Charge(l, c) == [i \in DOMAIN Rates |-> Positive(l[i] + c)]

Fits(l, c) == \A i \in DOMAIN Rates : l[i] + c <= Rates[i].burst

(* A cost may be negative and give tokens back; a window whose balance     *)
(* would be negative is one that had better open now.                      *)
Spend(w, c) == IF w.open THEN [w EXCEPT !.spent = Positive(w.spent + c)] ELSE w

Lengthen(w) == IF ~w.open \/ w.ticks >= MaxWindow
                 THEN Closed ELSE [w EXCEPT !.ticks = w.ticks + 1]

Damage(w) == IF ~w.open \/ w.losses >= MaxLosses
               THEN Closed ELSE [w EXCEPT !.losses = w.losses + 1]
-----------------------------------------------------------------------------
Init == level = Empty /\ window = Closed

Pass == level' = Drain(level) /\ window' = Lengthen(window)

Admit(c) ==
    /\ Fits(level, c)
    /\ level' = Charge(level, c)
    /\ window' = Spend(window, c)

Forget == level' = Empty /\ window' = Damage(window)

Observe ==
    /\ ~window.open
    /\ window' = Opened
    /\ UNCHANGED level

Next == Pass \/ (\E c \in Costs : Admit(c)) \/ Forget \/ Observe

Spec == Init /\ [][Next]_vars
-----------------------------------------------------------------------------
(* In any window, for every rate: what was let through is at most one      *)
(* burst, plus what the flow drained meanwhile, plus one more burst for    *)
(* each time the stored state was lost.                                    *)
(* It bounds what was let through on a charge: a request let through       *)
(* because Redis failed charges nothing and counts for nothing here.       *)
WindowBound ==
    \A i \in DOMAIN Rates :
        window.spent <= Rates[i].burst * (1 + window.losses)
                            + Rates[i].flow * window.ticks
=============================================================================
