---------------------------- MODULE Environments ----------------------------
(***************************************************************************)
(* What the durable store promises about environments, in the words of a   *)
(* user: a session is given one environment at a time, each environment is *)
(* wanted, usable, leaving and gone in that order, the attempt made in it  *)
(* gets one verdict, and nothing is usable while something older is left.  *)
(***************************************************************************)
EXTENDS Naturals

CONSTANTS Users, Sessions, Owner, MaxGen

Places == Sessions \X (1..MaxGen)

VARIABLES
    life,     \* of the environment of a session and generation
    verdict,  \* of the attempt made in it
    latest    \* the generation a session has come to

evars == <<life, verdict, latest>>

Lives == {"none", "wanted", "usable", "leaving", "gone"}
Verdicts == {"none", "in_progress", "success", "failed", "timeout"}

Wanted(e) == life[e] \in {"wanted", "usable"}

Init ==
    /\ life = [e \in Places |-> "none"]
    /\ verdict = [e \in Places |-> "none"]
    /\ latest = [s \in Sessions |-> 0]

\* A session starts when its user has no other one going.
Open(s) ==
    /\ latest[s] = 0
    /\ \A e \in Places : Owner[e[1]] = Owner[s] => ~Wanted(e)
    /\ life' = [life EXCEPT ![<<s, 1>>] = "wanted"]
    /\ verdict' = [verdict EXCEPT ![<<s, 1>>] = "in_progress"]
    /\ latest' = [latest EXCEPT ![s] = 1]

\* Only when everything older is gone.
Provide(e) ==
    /\ life[e] = "wanted"
    /\ \A g \in 1..(e[2] - 1) : life[<<e[1], g>>] = "gone"
    /\ life' = [life EXCEPT ![e] = "usable"]
    /\ UNCHANGED <<verdict, latest>>

\* A reset gives up a usable environment for the next one.
Replace(s) ==
    LET e == <<s, latest[s]>>
        f == <<s, latest[s] + 1>> IN
    /\ latest[s] \in 1..(MaxGen - 1)
    /\ life[e] = "usable"
    /\ life' = [life EXCEPT ![e] = "leaving", ![f] = "wanted"]
    /\ verdict' = [verdict EXCEPT ![e] = "failed", ![f] = "in_progress"]
    /\ latest' = [latest EXCEPT ![s] = @ + 1]

\* The attempt ends, well only in a usable environment; the environment leaves,
\* or is already gone with the process that kept it.
Finish(e, v, l) ==
    /\ Wanted(e)
    /\ v = "success" => life[e] = "usable" /\ l = "leaving"
    /\ life' = [life EXCEPT ![e] = l]
    /\ verdict' = [verdict EXCEPT ![e] = v]
    /\ UNCHANGED latest

Vanish(e) ==
    /\ life[e] = "leaving"
    /\ life' = [life EXCEPT ![e] = "gone"]
    /\ UNCHANGED <<verdict, latest>>

Next ==
    \/ \E s \in Sessions : Open(s) \/ Replace(s)
    \/ \E e \in Places :
          \/ Provide(e) \/ Vanish(e)
          \/ \E v \in {"success", "failed", "timeout"}, l \in {"leaving", "gone"} :
                Finish(e, v, l)

Spec == Init /\ [][Next]_evars

=============================================================================
