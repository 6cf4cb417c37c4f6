----------------------------- MODULE PairingFlow -----------------------------
(***************************************************************************)
(* The connect page: the store of frontend/src/components/connect/         *)
(* pairing.ts and the devices the browser remembers                        *)
(* (frontend/src/store/index.ts).  A pairing is waited on by a poller that *)
(* asks for the device's status; a poller, a revocation and a refresh each *)
(* send a request, which the host answers from the state it is in, and     *)
(* take the answer in a later step, in whatever order answers arrive.      *)
(***************************************************************************)
EXTENDS Naturals, FiniteSets

CONSTANTS
  Devices,       \* the ids the host gives out
  MaxAsks,       \* polls in POLL_LIMIT_MS
  MaxPairs,      \* bound: pair requests under way at once
  MaxRevokes,    \* bound: revocations under way at once
  None

ASSUME AsksIsNat == MaxAsks \in Nat /\ MaxPairs \in Nat /\ MaxRevokes \in Nat

VARIABLES
  host,          \* what the host knows of a device
  expired,       \* the devices whose code is past its expiry
  devices,       \* the devices this browser holds keys for
  selected,      \* the device in use, None for the local add-in
  pairing,       \* the device whose code is on screen, or None
  waiting,
  pairs,         \* how many pair requests are under way
  polls,         \* the poller of a device, or None
  revokes,       \* the revocation of a device under way, or None
  checks,        \* the status a refresh asked for, or None
  forgotten      \* history: the devices this browser forgot

stored == <<devices, selected>>
screen == <<pairing, waiting, pairs>>
vars == <<host, expired, stored, screen, polls, revokes, checks, forgotten>>

HostStates == {"unused", "code", "paired", "revoked", "purged"}
Answers == {"online", "offline", "404", "403", "down"}
Asked == "asked"

ASSUME NoneIsNoAnswer == None \notin Answers \union {Asked}

\* What GET /devices/{id} may answer: a purged pairing is 404, or 403 on a host that
\* will not say; "down" is a host that cannot be reached.
StatusAnswers(d) ==
  CASE host[d] = "code" -> {"offline", "down"}
    [] host[d] = "paired" -> {"online", "offline", "down"}
    [] host[d] = "revoked" -> {"403", "down"}
    [] host[d] = "purged" -> {"404", "403", "down"}
    [] OTHER -> {}

Init ==
  /\ host = [d \in Devices |-> "unused"]
  /\ expired = {}
  /\ devices = {}
  /\ selected = None
  /\ pairing = None
  /\ waiting = FALSE
  /\ pairs = 0
  /\ polls = [d \in Devices |-> None]
  /\ revokes = [d \in Devices |-> None]
  /\ checks = [d \in Devices |-> None]
  /\ forgotten = {}

-----------------------------------------------------------------------------
(* The host.                                                                 *)

\* The time of the code passes, whether it was redeemed or not.
CodeExpires(d) ==
  /\ host[d] \in {"code", "paired"} /\ d \notin expired
  /\ expired' = expired \union {d}
  /\ UNCHANGED <<host, stored, screen, polls, revokes, checks, forgotten>>

Purge(d) ==
  /\ host[d] = "code" /\ d \in expired
  /\ host' = [host EXCEPT ![d] = "purged"]
  /\ UNCHANGED <<expired, stored, screen, polls, revokes, checks, forgotten>>

Redeem(d) ==
  /\ host[d] = "code" /\ d \notin expired
  /\ host' = [host EXCEPT ![d] = "paired"]
  /\ UNCHANGED <<expired, stored, screen, polls, revokes, checks, forgotten>>

\* An admin elsewhere, or a revocation of this page whose answer is never read.
RevokedElsewhere(d) ==
  /\ host[d] \in {"code", "paired"}
  /\ host' = [host EXCEPT ![d] = "revoked"]
  /\ UNCHANGED <<expired, stored, screen, polls, revokes, checks, forgotten>>

-----------------------------------------------------------------------------
(* The session store.                                                        *)

\* forgetDevice(): the selection goes with the device.
Forget(d) ==
  /\ devices' = devices \ {d}
  /\ selected' = IF selected = d THEN None ELSE selected
  /\ forgotten' = forgotten \union {d}

\* selectDevice(): a device that is not remembered is the local add-in.
Selectable(d, known) == IF d \in known THEN d ELSE None

Select(d) ==
  /\ d = None \/ d \in devices
  /\ selected' = Selectable(d, devices)
  /\ UNCHANGED <<host, expired, devices, screen, polls, revokes, checks, forgotten>>

\* The page is loaded again: what is in sessionStorage is left.
Reload ==
  /\ pairing' = None /\ waiting' = FALSE /\ pairs' = 0
  /\ polls' = [d \in Devices |-> None]
  /\ revokes' = [d \in Devices |-> None]
  /\ checks' = [d \in Devices |-> None]
  /\ UNCHANGED <<host, expired, stored, forgotten>>

-----------------------------------------------------------------------------
(* pair() and waitForAddin().                                                *)

\* The button is shown without a code on screen and disabled while waiting.
Pair ==
  /\ pairing = None /\ ~waiting
  /\ pairs < MaxPairs
  /\ pairs' = pairs + 1
  /\ UNCHANGED <<host, expired, stored, pairing, waiting, polls, revokes, checks, forgotten>>

\* Mutant: the key is remembered when the device is online.
RememberLater(d) == devices
\* The key is remembered before the wait.
Remembered(d) == devices \union {d}

PairIssued(d) ==
  /\ pairs > 0 /\ pairs' = pairs - 1
  /\ host[d] = "unused"
  /\ host' = [host EXCEPT ![d] = "code"]
  /\ devices' = Remembered(d)
  /\ pairing' = d
  /\ waiting' = TRUE
  /\ polls' = [polls EXCEPT ![d] = [asks |-> 0, answer |-> None]]
  /\ UNCHANGED <<expired, selected, revokes, checks, forgotten>>

PairFails ==
  /\ pairs > 0 /\ pairs' = pairs - 1
  /\ pairing' = None
  /\ UNCHANGED <<host, expired, stored, waiting, polls, revokes, checks, forgotten>>

\* Three seconds later: the poller of a code that is no longer on screen ends.
PollWakes(d) ==
  /\ polls[d] # None /\ polls[d].answer = None
  /\ polls' = [polls EXCEPT ![d] =
       IF pairing = d THEN [@ EXCEPT !.answer = Asked] ELSE None]
  /\ UNCHANGED <<host, expired, stored, screen, revokes, checks, forgotten>>

PollServed(d) ==
  /\ polls[d] # None /\ polls[d].answer = Asked
  /\ \E a \in StatusAnswers(d) : polls' = [polls EXCEPT ![d].answer = a]
  /\ UNCHANGED <<host, expired, stored, screen, revokes, checks, forgotten>>

TimeIsUp(d) == polls[d].asks = MaxAsks

PollEnds(d, code, wait) ==
  /\ pairing' = code
  /\ waiting' = wait
  /\ polls' = [polls EXCEPT ![d] = None]
  /\ UNCHANGED pairs

\* Mutant: the ten minutes start over with every poll.
PollAfresh(d) ==
  /\ polls' = [polls EXCEPT ![d] = [asks |-> 0, answer |-> None]]
  /\ UNCHANGED screen

PollAgain(d) ==
  /\ polls' = [polls EXCEPT ![d] = [asks |-> @.asks + 1, answer |-> None]]
  /\ UNCHANGED screen

\* The device is there: it becomes the one in use.  The host may have no label for it.
PollOnline(d) ==
  /\ polls[d] # None /\ polls[d].answer = "online"
  /\ devices' \in {devices, devices \union {d}}
  /\ selected' = Selectable(d, devices')
  /\ PollEnds(d, None, FALSE)
  /\ UNCHANGED <<host, expired, revokes, checks, forgotten>>

\* Refused: a purged pairing ends the wait, a key that is not the device's leaves the
\* code on screen.
PollRefused(d) ==
  /\ polls[d] # None /\ polls[d].answer \in {"403", "404"}
  /\ IF polls[d].answer = "404" \/ d \in expired
       THEN PollEnds(d, None, FALSE)
       ELSE PollEnds(d, pairing, FALSE)
  /\ UNCHANGED <<host, expired, stored, revokes, checks, forgotten>>

\* The device is not there, and the time of its code is past.
SaysExpired(d) == polls[d] # None /\ polls[d].answer = "offline" /\ d \in expired

PollExpired(d) ==
  /\ SaysExpired(d)
  /\ PollEnds(d, None, FALSE)
  /\ UNCHANGED <<host, expired, stored, revokes, checks, forgotten>>

\* Not there yet, or no host to ask.
PollUnanswered(d) ==
  /\ polls[d] # None
  /\ polls[d].answer = "down" \/ (polls[d].answer = "offline" /\ d \notin expired)
  /\ \/ TimeIsUp(d) /\ PollEnds(d, pairing, FALSE)
     \/ ~TimeIsUp(d) /\ PollAgain(d)
  /\ UNCHANGED <<host, expired, stored, revokes, checks, forgotten>>

Cancel ==
  /\ pairing # None
  /\ pairing' = None
  /\ waiting' = FALSE
  /\ UNCHANGED <<host, expired, stored, pairs, polls, revokes, checks, forgotten>>

-----------------------------------------------------------------------------
(* Revoking, by the key of the device or by the admin's.                     *)

Revoke(d, by) ==
  /\ revokes[d] = None                       \* the row is not busy
  /\ Cardinality({e \in Devices : revokes[e] # None}) < MaxRevokes
  /\ \/ by = "key" /\ d \in devices
     \/ by = "admin" /\ host[d] # "unused"  \* of a list that may be old
  /\ revokes' = [revokes EXCEPT ![d] = [by |-> by, answer |-> Asked]]
  /\ UNCHANGED <<host, expired, stored, screen, polls, checks, forgotten>>

\* What DELETE /devices/{id} answers: the key of a revoked device is refused, the
\* admin's password is not.
RevokeAnswers(d, by) ==
  CASE host[d] \in {"code", "paired"} -> {"done"}
    [] host[d] = "revoked" -> IF by = "admin" THEN {"done"} ELSE {"403"}
    [] host[d] = "purged" -> IF by = "admin" THEN {"404"} ELSE {"403", "404"}
    [] OTHER -> {}

RevokeServed(d) ==
  /\ revokes[d] # None /\ revokes[d].answer = Asked
  /\ \/ \E a \in RevokeAnswers(d, revokes[d].by) :
          /\ revokes' = [revokes EXCEPT ![d].answer = a]
          /\ host' = IF a = "done" THEN [host EXCEPT ![d] = "revoked"] ELSE host
     \/ revokes' = [revokes EXCEPT ![d].answer = "down"] /\ UNCHANGED host
  /\ UNCHANGED <<expired, stored, screen, polls, checks, forgotten>>

\* revoke() forgets a device the host no longer accepts; adminRevoke() forgets only
\* one it has revoked.
\* Mutant: forgotten whatever the host says.
ForgetsAlways(r) == TRUE
Forgets(r) == r.answer = "done" \/ (r.by = "key" /\ r.answer \in {"403", "404"})

RevokeReturns(d) ==
  /\ revokes[d] # None /\ revokes[d].answer # Asked
  /\ revokes' = [revokes EXCEPT ![d] = None]
  /\ \/ Forgets(revokes[d]) /\ Forget(d)
     \/ ~Forgets(revokes[d]) /\ UNCHANGED <<stored, forgotten>>
  /\ UNCHANGED <<host, expired, screen, polls, checks>>

-----------------------------------------------------------------------------
(* refresh(): every remembered device is asked for.                          *)

Refresh ==
  /\ \A d \in Devices : checks[d] = None
  /\ devices # {}
  /\ checks' = [d \in Devices |-> IF d \in devices THEN Asked ELSE None]
  /\ UNCHANGED <<host, expired, stored, screen, polls, revokes, forgotten>>

CheckServed(d) ==
  /\ checks[d] = Asked
  /\ \E a \in StatusAnswers(d) : checks' = [checks EXCEPT ![d] = a]
  /\ UNCHANGED <<host, expired, stored, screen, polls, revokes, forgotten>>

CheckReturns(d) ==
  /\ checks[d] \notin {None, Asked}
  /\ checks' = [checks EXCEPT ![d] = None]
  /\ \/ checks[d] \in {"403", "404"} /\ Forget(d)
     \/ checks[d] \notin {"403", "404"} /\ UNCHANGED <<stored, forgotten>>
  /\ UNCHANGED <<host, expired, screen, polls, revokes>>

Poll(d) ==
  \/ PollWakes(d) \/ PollServed(d) \/ PollOnline(d) \/ PollRefused(d)
  \/ PollExpired(d) \/ PollUnanswered(d)

Device(d) ==
  \/ CodeExpires(d) \/ Purge(d) \/ Redeem(d) \/ RevokedElsewhere(d)
  \/ Select(d) \/ PairIssued(d) \/ Poll(d)
  \/ Revoke(d, "key") \/ Revoke(d, "admin") \/ RevokeServed(d) \/ RevokeReturns(d)
  \/ CheckServed(d) \/ CheckReturns(d)

Next ==
  \/ Pair \/ PairFails \/ Cancel \/ Refresh \/ Reload \/ Select(None)
  \/ \E d \in Devices : Device(d)

Spec == Init /\ [][Next]_vars

\* The browser's timers run and its requests are answered or fail.
FairSpec == Spec /\ \A d \in Devices : WF_vars(Poll(d))

-----------------------------------------------------------------------------
Pollers == [asks : 0..MaxAsks, answer : Answers \union {None, Asked}]

Revocations == [by : {"key", "admin"}, answer : {Asked, "done", "403", "404", "down"}]

TypeOK ==
  /\ host \in [Devices -> HostStates]
  /\ expired \subseteq Devices /\ devices \subseteq Devices
  /\ selected \in Devices \union {None} /\ pairing \in Devices \union {None}
  /\ waiting \in BOOLEAN /\ pairs \in 0..MaxPairs
  /\ polls \in [Devices -> Pollers \union {None}]
  /\ revokes \in [Devices -> Revocations \union {None}]
  /\ checks \in [Devices -> Answers \union {None, Asked}]
  /\ forgotten \subseteq Devices

\* The device whose headers go with every request is one the browser holds a key for,
\* whatever forgets it: a revocation, an admin's, or a refresh.
SelectedIsRemembered == selected # None => selected \in devices

\* No device that was issued to this browser is lost, not even by a reload in the
\* middle of its pairing: its key is there until it is forgotten.
KeyIsKept == \A d \in Devices : host[d] # "unused" => d \in devices \union forgotten

\* The browser forgets a device only when the host is done with it: no key to a live
\* device is thrown away, so every one of them can still be revoked.
ForgottenIsDead == \A d \in forgotten : host[d] \in {"revoked", "purged"}

\* A wait ends, whether or not there is a host to ask.
PollerEnds == \A d \in Devices : polls[d] # None ~> polls[d] = None
=============================================================================
