----------------------------- MODULE Protocols -----------------------------
(***************************************************************************)
(* ProtocolService: a protocol puts approved applicants and residents      *)
(* before the committee, which has to approve it unanimously.              *)
(***************************************************************************)
EXTENDS Registry

\* Mutant: a resident who is on an approved application is eligible too.
EligibleResidentMutant(s) ==
  /\ home[s] # NoRoom
  /\ \A p \in Protocols : s \notin presidents[p]

\* eligibleResidentCondition: lives here, never in a protocol by either
\* route, and no approved application.
EligibleResident(s) ==
  /\ home[s] # NoRoom
  /\ \A p \in Protocols : s \notin presidents[p]
  /\ \A a \in Apps : Owner[a] = s =>
       ~InSomeProtocol(a) /\ status[a] # "approved"

\* Mutants: one of the two checks is left out.
ProtocolCandidateUndecidedMutant(a) == Exists(a) /\ ~InSomeProtocol(a)
ProtocolCandidateListedMutant(a) == status[a] = "approved"

\* The applications are locked FOR UPDATE, so approval and membership are
\* checked in the transaction that inserts the rows.
ProtocolCandidate(a) == status[a] = "approved" /\ ~InSomeProtocol(a)

\* Create.  The roster was read before the transaction, from a table that
\* UserService changes at any time: it is any committee that is not empty.
CreateProtocol(p, as, ss, roster) ==
  /\ pstate[p] = "none"
  /\ as # {} \/ ss # {}
  /\ roster # {}
  /\ \A a \in as : ProtocolCandidate(a) /\ ~AppLocked(a)
  /\ \A s \in ss : EligibleResident(s)
  /\ pstate' = [pstate EXCEPT ![p] = "pending"]
  /\ papps' = [papps EXCEPT ![p] = as]
  /\ presidents' = [presidents EXCEPT ![p] = ss]
  /\ votes' = [votes EXCEPT ![p] =
                 [m \in Members |-> IF m \in roster THEN "open" ELSE "norow"]]
  /\ UNCHANGED <<appVars, contractVars, home, referred, handlers, ghostVars>>

\* Delete checks the status without a lock; the rows of the protocol's
\* applications, residents and votes go with it (ON DELETE CASCADE).
DeleteProtocolCheck(p) ==
  /\ pstate[p] = "pending"
  /\ Begin(ProtocolHandler("protocol.delete", p, {}))
  /\ UNCHANGED <<appVars, contractVars, home, protocolVars, ghostVars>>

DeleteProtocol(h) ==
  /\ h.step = "protocol.delete"
  /\ pstate[h.protocol] \in {"pending", "approved"}
  /\ pstate' = [pstate EXCEPT ![h.protocol] = "deleted"]
  /\ papps' = [papps EXCEPT ![h.protocol] = {}]
  /\ presidents' = [presidents EXCEPT ![h.protocol] = {}]
  /\ votes' = [votes EXCEPT ![h.protocol] = NoVotes]
  /\ End(h)
  /\ UNCHANGED <<appVars, contractVars, home, referred, ghostVars>>

-----------------------------------------------------------------------------
\* allVotesCast /\ allVotesApproved over the rows of one protocol.
Unanimous(ballots) == \A m \in Members : ballots[m] \in {"norow", "approved"}

\* Mutant: a vote on a protocol that is no longer pending.
CastMutant(p, m, decision) ==
  /\ pstate[p] \in {"pending", "approved"}
  /\ votes[p][m] # "norow"
  /\ votes' = [votes EXCEPT ![p][m] = decision]

\* Vote, under the row lock of the protocol: a member who has a row votes, or
\* votes again, while the protocol is pending.
Cast(p, m, decision) ==
  /\ pstate[p] = "pending"
  /\ votes[p][m] # "norow"
  /\ votes' = [votes EXCEPT ![p][m] = decision]

VotePending(p, m, decision) ==
  /\ Cast(p, m, decision)
  /\ ~Unanimous(votes'[p])
  /\ UNCHANGED <<appVars, contractVars, home, pstate, papps, presidents,
                 referred, handlers, ghostVars>>

\* Mutant: the hook runs, but the new status is not saved with the vote.
VoteApprovedMutant(p, m) ==
  /\ Cast(p, m, "approved")
  /\ Unanimous(votes'[p])
  /\ granted' = granted \cup papps[p]
  /\ Begin(ProtocolHandler("hook.next", p, papps[p]))
  /\ UNCHANGED <<appVars, contractVars, home, pstate, papps, presidents,
                 referred, cleared, seated>>

\* The vote that makes it unanimous also approves the protocol; once that is
\* committed the same request lists the applications and runs the hook.
VoteApproved(p, m) ==
  /\ Cast(p, m, "approved")
  /\ Unanimous(votes'[p])
  /\ pstate' = [pstate EXCEPT ![p] = "approved"]
  /\ granted' = granted \cup papps[p]
  /\ Begin(ProtocolHandler("hook.next", p, papps[p]))
  /\ UNCHANGED <<appVars, contractVars, home, papps, presidents, referred,
                 cleared, seated>>
=============================================================================
