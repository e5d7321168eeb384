---------------------------- MODULE Organizations ----------------------------
(***************************************************************************)
(* The members of one organization and its invitations                     *)
(* (vfm/server/src/orgs/orgs.service.ts, invites.service.ts): roles are    *)
(* changed and members removed in serializable transactions, invitations   *)
(* are replaced and taken up in transactions that are not, and an account  *)
(* is made by whoever takes up an invitation without having one.  Requests *)
(* run side by side; a step is a query, or a transaction's commit.         *)
(***************************************************************************)
EXTENDS Integers, FiniteSets

CONSTANTS
  People,      \* addresses
  Founder,     \* who created the organization
  Letters,     \* invitations ever made (a bound)
  Requests,    \* requests at once (a bound)
  NoLetter, NoPerson,
  MaxCalls     \* requests ever made (a bound)

ASSUME OrganizationsAssumption ==
  Founder \in People /\ NoLetter \notin Letters /\ NoPerson \notin People /\ MaxCalls \in Nat

VARIABLES
  account,   \* addresses that have an account
  role,      \* Membership.orgRole, "none" without one
  letter,    \* Invite: its state, its address and role
  admitted,  \* (history) how often an invitation made a member
  erased,    \* (history) a member's account was deleted
  request,
  calls

organizationVars == <<account, role, letter, admitted, erased, request, calls>>

Roles == {"MEMBER", "ADMIN", "OWNER"}
Admins == {"ADMIN", "OWNER"}
NotMade == [state |-> "unmade", for |-> NoPerson, role |-> "MEMBER"]
IdleRequest == [at |-> "idle", kind |-> "none", by |-> "none", who |-> NoPerson, to |-> "none",
                letter |-> NoLetter, seen |-> [p \in People |-> "none"]]

OrganizationsInit ==
  /\ account = {Founder}
  /\ role = [p \in People |-> IF p = Founder THEN "OWNER" ELSE "none"]
  /\ letter = [i \in Letters |-> NotMade] /\ admitted = [i \in Letters |-> 0]
  /\ erased = FALSE
  /\ request = [q \in Requests |-> IdleRequest] /\ calls = 0

LiveFor(p) == {i \in Letters : letter[i].state = "live" /\ letter[i].for = p}

\* A request begins, goes on, ends.
Begins(q, what) ==
  /\ request[q] = IdleRequest /\ calls < MaxCalls
  /\ calls' = calls + 1
  /\ request' = [request EXCEPT ![q] = what]
Goes(q, at) == request' = [request EXCEPT ![q].at = at] /\ UNCHANGED calls
Answered(q) == request' = [request EXCEPT ![q] = IdleRequest] /\ UNCHANGED calls

-----------------------------------------------------------------------------
(***************************************************************************)
(* changeRole and removeMember.  The actor's own role is read before the   *)
(* transaction, and not again in it.                                       *)
(***************************************************************************)
AskToChange(q, actor, who, to) ==
  /\ role[actor] \in Admins /\ (to = "OWNER" => role[actor] = "OWNER")
  /\ Begins(q, [IdleRequest EXCEPT !.at = "asked", !.kind = "change", !.by = role[actor],
                  !.who = who, !.to = to])
  /\ UNCHANGED <<erased, account, role, letter, admitted>>

AskToRemove(q, actor, who) ==
  /\ role[actor] # "none" /\ (who # actor => role[actor] \in Admins)
  /\ Begins(q, [IdleRequest EXCEPT !.at = "asked", !.kind = IF who = actor THEN "leave" ELSE "remove",
                  !.by = role[actor], !.who = who, !.to = "none"])
  /\ UNCHANGED <<erased, account, role, letter, admitted>>

assertAnotherOwner(who) == \E p \in People \ {who} : role[p] = "OWNER"

Permitted(q) ==
  LET target == role[request[q].who]
  IN /\ target # "none"
     /\ target = "OWNER" => request[q].by = "OWNER" \/ request[q].kind = "leave"
     /\ target = "OWNER" /\ request[q].to # "OWNER" => assertAnotherOwner(request[q].who)

TransactionReads(q) ==
  /\ request[q].at = "asked"
  /\ IF Permitted(q)
     THEN request' = [request EXCEPT ![q].at = "checked", ![q].seen = role] /\ UNCHANGED calls
     ELSE Answered(q)
  /\ UNCHANGED <<erased, account, role, letter, admitted>>

Moved(q) == [role EXCEPT ![request[q].who] = request[q].to]

\* Mutant: read committed.
TransactionCommits_Unserialized(q) ==
  /\ request[q].at = "checked" /\ role[request[q].who] # "none"
  /\ role' = Moved(q)
  /\ Answered(q)
  /\ UNCHANGED <<erased, account, letter, admitted>>

\* Serializable: what was read has not changed, or the transaction is given up.
TransactionCommits(q) ==
  /\ request[q].at = "checked"
  /\ role' = IF role = request[q].seen THEN Moved(q) ELSE role
  /\ Answered(q)
  /\ UNCHANGED <<erased, account, letter, admitted>>

-----------------------------------------------------------------------------
(***************************************************************************)
(* create: the address is not a member's, older invitations of it are      *)
(* deleted, the new one is inserted; it goes again if it cannot be sent.   *)
(***************************************************************************)
Invite(q, actor, who, to) ==
  /\ role[actor] \in Admins /\ (to = "OWNER" => role[actor] = "OWNER")
  /\ role[who] = "none"
  /\ Begins(q, [IdleRequest EXCEPT !.at = "replacing", !.kind = "invite", !.who = who, !.to = to])
  /\ UNCHANGED <<erased, account, role, letter, admitted>>

InviteReplaces(q) ==
  /\ request[q].at = "replacing"
  /\ letter' = [i \in Letters |-> IF i \in LiveFor(request[q].who)
                                  THEN [letter[i] EXCEPT !.state = "gone"] ELSE letter[i]]
  /\ Goes(q, "inserting")
  /\ UNCHANGED <<erased, account, role, admitted>>

InviteInserts(q, i) ==
  /\ request[q].at = "inserting" /\ letter[i] = NotMade
  /\ letter' = [letter EXCEPT ![i] = [state |-> "live", for |-> request[q].who, role |-> request[q].to]]
  /\ request' = [request EXCEPT ![q].at = "sending", ![q].letter = i] /\ UNCHANGED calls
  /\ UNCHANGED <<erased, account, role, admitted>>

Sent(q) ==
  /\ request[q].at = "sending"
  /\ Answered(q)
  /\ UNCHANGED <<erased, account, role, letter, admitted>>

NotSent(q) ==
  /\ request[q].at = "sending"
  /\ letter' = [letter EXCEPT ![request[q].letter].state = "gone"]
  /\ Answered(q)
  /\ UNCHANGED <<erased, account, role, admitted>>

\* revoke, or a week has passed.
Revoked(i) ==
  /\ letter[i].state = "live"
  /\ letter' = [letter EXCEPT ![i].state = "gone"]
  /\ UNCHANGED <<erased, account, role, admitted, request, calls>>

-----------------------------------------------------------------------------
(***************************************************************************)
(* accept and register.                                                    *)
(***************************************************************************)
Lookup(q, i) ==
  /\ letter[i].state = "live"
  /\ LET p == letter[i].for
     IN Begins(q, [IdleRequest EXCEPT !.who = p, !.to = letter[i].role, !.letter = i,
                     !.kind = IF p \in account THEN "accept" ELSE "register",
                     !.at = IF p \in account THEN "consuming" ELSE "registering"])
  /\ UNCHANGED <<erased, account, role, letter, admitted>>

CreateAccount(q) ==
  /\ request[q].at = "registering"
  /\ IF request[q].who \in account THEN Answered(q) /\ UNCHANGED account
     ELSE Goes(q, "consuming") /\ account' = account \cup {request[q].who}
  /\ UNCHANGED <<erased, role, letter, admitted>>

Admit(q) ==
  /\ letter' = [letter EXCEPT ![request[q].letter].state = "accepted"]
  /\ admitted' = [admitted EXCEPT ![request[q].letter] = @ + 1]
  /\ role' = [role EXCEPT ![request[q].who] = request[q].to]

consume_Unclaimed(q) ==   \* mutant
  /\ request[q].at = "consuming" /\ request[q].who \in account
  /\ role[request[q].who] = "none" /\ Admit(q)
  /\ Answered(q) /\ UNCHANGED <<account, erased>>

\* One transaction: the invitation is claimed, the member inserted; neither without the
\* other.  Who registered and lost the race loses the account again.
consume(q) ==
  /\ request[q].at = "consuming"
  /\ IF letter[request[q].letter].state = "live" /\ role[request[q].who] = "none"
        /\ request[q].who \in account
     THEN Admit(q) /\ Answered(q)
     ELSE /\ UNCHANGED <<role, letter, admitted>>
          /\ IF request[q].kind = "register" THEN Goes(q, "deleting") ELSE Answered(q)
  /\ UNCHANGED <<account, erased>>

\* The memberships of an account go with it.
DeleteAccount(q) ==
  /\ request[q].at = "deleting"
  /\ account' = account \ {request[q].who}
  /\ role' = [role EXCEPT ![request[q].who] = "none"]
  /\ erased' = (erased \/ role[request[q].who] # "none")
  /\ Answered(q)
  /\ UNCHANGED <<letter, admitted>>

\* The replica dies with the request.
Abandoned(q) ==
  /\ request[q].at \in {"consuming", "deleting", "sending"}
  /\ Answered(q)
  /\ UNCHANGED <<erased, account, role, letter, admitted>>

-----------------------------------------------------------------------------
OrganizationsNext ==
  \E q \in Requests :
    \/ \E actor, who \in People :
         \/ AskToRemove(q, actor, who)
         \/ \E to \in Roles : AskToChange(q, actor, who, to) \/ Invite(q, actor, who, to)
    \/ TransactionReads(q) \/ TransactionCommits(q)
    \/ InviteReplaces(q) \/ Sent(q) \/ NotSent(q)
    \/ \E i \in Letters : InviteInserts(q, i) \/ Lookup(q, i) \/ Revoked(i)
    \/ CreateAccount(q) \/ consume(q) \/ DeleteAccount(q) \/ Abandoned(q)

OrganizationsSpec == OrganizationsInit /\ [][OrganizationsNext]_organizationVars

-----------------------------------------------------------------------------
Letter == [state : {"unmade", "live", "accepted", "gone"}, for : People \cup {NoPerson}, role : Roles]
Request ==
  [at : {"idle", "asked", "checked", "replacing", "inserting", "sending", "registering", "consuming",
         "deleting"},
   kind : {"none", "change", "leave", "remove", "invite", "accept", "register"},
   by : Roles \cup {"none"}, who : People \cup {NoPerson}, to : Roles \cup {"none"},
   letter : Letters \cup {NoLetter}, seen : [People -> Roles \cup {"none"}]]

OrganizationsTypeOK ==
  /\ account \subseteq People /\ role \in [People -> Roles \cup {"none"}]
  /\ letter \in [Letters -> Letter] /\ request \in [Requests -> Request]
  /\ admitted \in [Letters -> Nat] /\ erased \in BOOLEAN /\ calls \in Nat
  /\ \A p \in People : role[p] # "none" => p \in account

(***************************************************************************)
(* "Two Owners demoting each other at once would each see the other as     *)
(* still an Owner": an organization keeps an owner, whoever leaves, is     *)
(* removed or demoted at the same time, as long as no member's account was *)
(* deleted.                                                                *)
(***************************************************************************)
AnOwnerRemains == ~erased => \E p \in People : role[p] = "OWNER"

(***************************************************************************)
(* "Single use": an invitation makes a member once, though it was looked   *)
(* up by several requests, replaced or revoked meanwhile, and its member   *)
(* removed again.                                                          *)
(***************************************************************************)
AdmittedOnce ==
  \A i \in Letters : admitted[i] <= 1 /\ (letter[i].state = "accepted" => admitted[i] = 1)

=============================================================================
