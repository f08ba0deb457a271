----------------------- MODULE GlobusCallbackService -----------------------
(***************************************************************************)
(* What the callback library promises a program about one callback: once   *)
(* globus_callback_unregister has answered that it was not active, it is   *)
(* never entered; the unregister callback is called once, after the last   *)
(* invocation has returned, and nothing is entered after it; and it is     *)
(* called eventually unless the library is impaired (shut down).           *)
(***************************************************************************)
EXTENDS Naturals

CONSTANT Callbacks

VARIABLES
    phase,      \* "new", "live", or how it was unregistered
    executing,  \* threads inside the callback
    notified,   \* calls of the unregister callback
    impaired    \* the library no longer promises progress

vars == <<phase, executing, notified, impaired>>

Init ==
    /\ phase = [c \in Callbacks |-> "new"]
    /\ executing = [c \in Callbacks |-> 0]
    /\ notified = [c \in Callbacks |-> 0]
    /\ impaired = FALSE

Worsens == impaired => impaired'

Register(c) ==
    /\ phase[c] = "new"
    /\ phase' = [phase EXCEPT ![c] = "live"]
    /\ UNCHANGED <<executing, notified>>
    /\ Worsens

\* An unregistered callback may still be entered only if the program was told
\* that it is active, and only until its unregister callback is called.
Enter(c) ==
    /\ phase[c] \in {"live", "active", "draining"}
    /\ notified[c] = 0
    /\ executing' = [executing EXCEPT ![c] = @ + 1]
    /\ UNCHANGED <<phase, notified>>
    /\ Worsens

Leave(c) ==
    /\ executing[c] > 0
    /\ executing' = [executing EXCEPT ![c] = @ - 1]
    /\ UNCHANGED <<phase, notified>>
    /\ Worsens

\* "active" and "inactive" expect an unregister callback; "draining" and
\* "released" passed none.
Unregister(c) ==
    /\ phase[c] = "live"
    /\ \E p \in {"active", "draining", "inactive", "released"} :
           /\ p \in {"inactive", "released"} => executing[c] = 0
           /\ phase' = [phase EXCEPT ![c] = p]
    /\ UNCHANGED <<executing, notified>>
    /\ Worsens

Notify(c) ==
    /\ phase[c] \in {"active", "inactive"}
    /\ executing[c] = 0
    /\ notified[c] = 0
    /\ notified' = [notified EXCEPT ![c] = 1]
    /\ UNCHANGED <<phase, executing>>
    /\ Worsens

Impair ==
    /\ UNCHANGED <<phase, executing, notified>>
    /\ Worsens

Next ==
    \/ \E c \in Callbacks : \/ Register(c)
                             \/ Enter(c)
                             \/ Leave(c)
                             \/ Unregister(c)
                             \/ Notify(c)
    \/ Impair

\* Progress is stated as what happens, since only an implementation knows the
\* steps that bring a notification about.
Progress ==
    \A c \in Callbacks :
        (phase[c] \in {"active", "inactive"}) ~> (notified[c] = 1 \/ impaired)

Spec == Init /\ [][Next]_vars /\ Progress
=============================================================================
