------------------------------- MODULE Proxy --------------------------------
(***************************************************************************)
(* What a Controller is to the application that owns it: a proxy in two    *)
(* halves, one for connections and one for datagrams, each closed or open  *)
(* for a profile.  start() opens them for the profile in force, stop()     *)
(* closes them, and nothing moves through a half that is closed.  setup()  *)
(* changes the profile and closes the half for connections; the other one  *)
(* stays open for the profile it was opened for, and a start() that finds  *)
(* it open opens the first half only and announces nothing.                *)
(***************************************************************************)
CONSTANTS Profiles, NoProfile

VARIABLES
    profile,        \* in force
    usable,         \* its encryption method works
    openFor,        \* the profile connections are taken for, or NoProfile
    boundFor,       \* the same of datagrams
    announced,      \* the last runningStateChanged()
    connections,    \* as a whole
    datagrams       \* what was sent, as a whole

settings  == <<profile, usable>>
state     == <<openFor, boundFor, announced>>
traffic   == <<connections, datagrams>>
proxyVars == <<settings, state, traffic>>

Init ==
    /\ profile = NoProfile /\ usable = FALSE
    /\ openFor = NoProfile /\ boundFor = NoProfile /\ announced = FALSE

Setup(p) ==
    /\ profile' = p /\ usable' \in BOOLEAN /\ openFor' = NoProfile
    /\ UNCHANGED <<boundFor, announced, traffic>>

(* The half for datagrams may fail to open.                                *)
Start ==
    /\ openFor = NoProfile /\ profile # NoProfile /\ usable
    /\ openFor' = profile
    /\ \/ boundFor = NoProfile /\ boundFor' = profile /\ announced' = TRUE
       \/ UNCHANGED <<boundFor, announced>>
    /\ UNCHANGED <<settings, traffic>>

Stop ==
    /\ openFor' = NoProfile /\ boundFor' = NoProfile /\ announced' = FALSE
    /\ UNCHANGED <<settings, traffic>>

Connect == openFor # NoProfile /\ UNCHANGED <<settings, state, datagrams>>
Relay   == boundFor # NoProfile /\ UNCHANGED <<settings, state, connections>>

Next == Start \/ Stop \/ Connect \/ Relay \/ \E p \in Profiles : Setup(p)

Spec == Init /\ [][Next]_proxyVars
=============================================================================
