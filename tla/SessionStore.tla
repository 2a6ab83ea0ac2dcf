---------------------------- MODULE SessionStore ----------------------------
(***************************************************************************)
(* What the refresh-session component promises its clients, with no Redis, *)
(* no time and no requests: for every session one current jti, and a set   *)
(* of jtis that have been spent by a rotation and may never be accepted    *)
(* again.  Two promises are stated.                                        *)
(*                                                                         *)
(*   AtomicSpec  the promise of the comment above rotateIfMatches: a       *)
(*               rotation compares and replaces in one step (only a key    *)
(*               that expires under the rotation is written back).         *)
(*   Spec        what the GET-then-SET of the code keeps under races and   *)
(*               Redis faults: a write may hit a session whose jti has     *)
(*               moved on or disappeared, but a spent jti is never         *)
(*               written back.                                             *)
(***************************************************************************)
CONSTANTS Sids, Jtis, NoJti

VARIABLES current,  \* current[s]: the jti that session s accepts, or NoJti
          spent     \* the jtis some rotation has replaced on presentation

storeVars == <<current, spent>>

Init ==
  /\ current = [s \in Sids |-> NoJti]
  /\ spent = {}

\* A sign-in stores the first jti of a session that has none.
Open(s, j) ==
  /\ current[s] = NoJti
  /\ j \notin spent
  /\ current' = [current EXCEPT ![s] = j]
  /\ UNCHANGED spent

\* Compare-and-replace: the presented jti is current, and is spent by this.
Rotate(s, old, new) ==
  /\ current[s] = old
  /\ new \notin spent \cup {old}
  /\ current' = [current EXCEPT ![s] = new]
  /\ spent' = spent \cup {old}

\* The key of the presented jti ran out of time during the rotation.
Renew(s, old, new) ==
  /\ current[s] = NoJti
  /\ new \notin spent \cup {old}
  /\ \A t \in Sids : current[t] # old
  /\ current' = [current EXCEPT ![s] = new]
  /\ spent' = spent \cup {old}

\* The weaker write: whatever the session holds is replaced by a jti that is
\* not spent, and the jtis in gone (the presented one, if any) become spent.
\* A step may spend no jti that another session still accepts.
Replace(s, j, gone) ==
  /\ j \notin spent \cup gone
  /\ current' = [current EXCEPT ![s] = j]
  /\ spent' = spent \cup gone
  /\ \A t \in Sids \ {s} : current[t] \notin gone

\* Revocation empties one session, expiry any number at once: Redis drops every
\* key whose time to live has run out.
Drop(S) ==
  /\ current' = [s \in Sids |-> IF s \in S THEN NoJti ELSE current[s]]
  /\ UNCHANGED spent

AtomicNext ==
  \/ \E s \in Sids, j \in Jtis : Open(s, j)
  \/ \E s \in Sids, old, new \in Jtis : Rotate(s, old, new) \/ Renew(s, old, new)
  \/ \E S \in SUBSET Sids : Drop(S)

Next ==
  \/ \E s \in Sids, j \in Jtis : Replace(s, j, {})
  \/ \E s \in Sids, j, old \in Jtis : Replace(s, j, {old})
  \/ \E S \in SUBSET Sids : Drop(S)

AtomicSpec == Init /\ [][AtomicNext]_storeVars
Spec == Init /\ [][Next]_storeVars
=============================================================================
