------------------------------ MODULE PushDevices ------------------------------
(***************************************************************************)
(* Logins and the push devices registered in them.  A device follows its   *)
(* login from one Session row to the next.  The statements of a logout are *)
(* one action, and those that create a Session and move the devices there: *)
(* nobody knows the new one before, and nobody treats an active device of  *)
(* a revoked session otherwise than one that is off.                       *)
(*                                                                         *)
(*   session[s]  a login: the Session rows that refreshes replace by one   *)
(*               another, the last of which may be LIVE; CONSUMED when a   *)
(*               refresh has revoked it and not yet created the next;      *)
(*   device[i]   the PushDevice of installation i: version grows when it   *)
(*               changes hands, reason tells whether Firebase's answer or  *)
(*               somebody else (OFF) switched it off;                      *)
(*   dead        tokens that the push provider no longer knows.            *)
(***************************************************************************)
EXTENDS Integers, FiniteSets

CONSTANTS Users, Installs, Tokens, Sessions,
    MaxVersion      \* bounds re-registrations

ASSUME PushDevicesAssumption == MaxVersion \in Nat \ {0}

VARIABLES session, device, dead

deviceVars == <<session, device, dead>>

Live(s) == session[s].status = "LIVE"

DevicesInit ==
    /\ session = [s \in Sessions |-> [user |-> {}, status |-> "NONE"]]
    /\ device = [i \in Installs |-> [user |-> {}, session |-> {}, token |-> {},
                                     version |-> 0, active |-> FALSE, reason |-> "NONE"]]
    /\ dead = {}

\* The installations in off are switched off for the given reason.
SwitchedOff(off, reason) ==
    [i \in Installs |-> IF i \in off
                        THEN [device[i] EXCEPT !.active = FALSE, !.reason = reason]
                        ELSE device[i]]

OnSession(s) == {i \in Installs : device[i].active /\ device[i].session = {s}}

SignIn(s, u) ==
    /\ session[s].status = "NONE"
    /\ session' = [session EXCEPT ![s] = [user |-> {u}, status |-> "LIVE"]]
    /\ UNCHANGED <<device, dead>>

LogOut(s) ==
    /\ session[s].status # "NONE"
    /\ session' = [session EXCEPT ![s].status = IF @ = "LIVE" THEN "REVOKED" ELSE @]
    /\ device' = SwitchedOff(OnSession(s), "OFF")
    /\ UNCHANGED dead

\* refresh: of two with the same token one consumes the session.
Consume(s) ==
    /\ Live(s)
    /\ session' = [session EXCEPT ![s].status = "CONSUMED"]
    /\ UNCHANGED <<device, dead>>

\* issueTokens, for a login whose session was consumed: it goes on in a new one
\* with the devices that are still active.  A refresh may also end before.
Renew(s) ==
    /\ session[s].status = "CONSUMED"
    /\ session' = [session EXCEPT ![s].status = "LIVE"]
    /\ UNCHANGED <<device, dead>>

OthersWith(i, t) == {j \in Installs \ {i} : device[j].active /\ device[j].token = {t}}

\* The version that a registration gives: a new one when anything has changed.
NextVersion(i, s, t) ==
    IF \/ device[i].token # {t} \/ device[i].user # session[s].user \/ ~device[i].active
    THEN device[i].version + 1 ELSE device[i].version

RegisterDevice(i, s, t) ==
    /\ Live(s)
    /\ NextVersion(i, s, t) <= MaxVersion
    /\ device' = [SwitchedOff(OthersWith(i, t), "OFF") EXCEPT
            ![i] = [user |-> session[s].user, session |-> {s}, token |-> {t},
                    version |-> NextVersion(i, s, t), active |-> TRUE, reason |-> "NONE"]]
    /\ UNCHANGED <<session, dead>>

UnregisterDevice(i, s) ==
    /\ Live(s) /\ i \in OnSession(s)
    /\ device' = SwitchedOff({i}, "OFF")
    /\ UNCHANGED <<session, dead>>

\* External: the application is removed or its token is replaced.
TokenDies(t) ==
    /\ \E i \in Installs : device[i].token = {t}
    /\ dead' = dead \cup {t}
    /\ UNCHANGED <<session, device>>

DevicesNext ==
    \/ \E s \in Sessions :
            (\E u \in Users : SignIn(s, u)) \/ LogOut(s) \/ Consume(s) \/ Renew(s)
    \/ \E i \in Installs, s \in Sessions :
            (\E t \in Tokens : RegisterDevice(i, s, t)) \/ UnregisterDevice(i, s)
    \/ \E t \in Tokens : TokenDies(t)
=============================================================================
