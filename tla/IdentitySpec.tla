---------------------------- MODULE IdentitySpec ----------------------------
(***************************************************************************)
(* What identity provisioning promises, with no rows, locks or statements:   *)
(* an account belongs to a verified subject and a sign-in is one atomic       *)
(* step.  A refused sign-in changes nothing and is not a step here.           *)
(*                                                                          *)
(* reserved is the account an address has that is bound to no subject yet:    *)
(* a row the owner inserted, or one that predates the required subject, with  *)
(* or without a personal tenant.  Only the owner can bind it.                 *)
(***************************************************************************)
CONSTANTS Emails, Subjects, None

VARIABLES
    account,    \* the account of a subject, or None
    reserved,   \* the unbound account of an address, or None
    approved    \* addresses the owner has approved so far

vars == <<account, reserved, approved>>

Status == {"active", "disabled"}
Account == [email : Emails, user : Status,
            tenant : Status \cup {None}, membership : Status \cup {None}]

\* Modules that use this one choose None so.
NoneIsNew == None \notin Emails \cup Status \cup Account

\* The accounts without a subject that migrations 0002 and 0003 leave: a bare
\* row, or one their function made for an address it found on the allowlist,
\* with its tenant and membership.
Unbound(e) ==
    {[email |-> e, user |-> "active", tenant |-> st, membership |-> st] :
        st \in {None} \cup {"active" : a \in approved \cap {e}}}

Init ==
    /\ account = [s \in Subjects |-> None]
    /\ approved \in SUBSET Emails
    /\ reserved \in [Emails -> {None} \cup UNION {Unbound(e) : e \in Emails}]
    /\ \A e \in Emails : reserved[e] \in Unbound(e) \cup {None}

\* Nobody but s holds the address.
Available(e, s) ==
    /\ reserved[e] = None
    /\ \A t \in Subjects \ {s} : account[t] # None => account[t].email # e

Blocked(s) ==
    /\ account[s] # None
    /\ "disabled" \in {account[s].user, account[s].tenant, account[s].membership}

\* A verified subject presents an approved address that is nobody else's: its
\* account follows it there, and is complete and active from then on.
SignIn(s, e) ==
    /\ e \in approved
    /\ Available(e, s)
    /\ ~Blocked(s)
    /\ account' = [account EXCEPT ![s] =
          [email |-> e, user |-> "active", tenant |-> "active", membership |-> "active"]]
    /\ UNCHANGED <<reserved, approved>>

Approve(e) ==
    /\ approved' = approved \cup {e}
    /\ UNCHANGED <<account, reserved>>

\* The owner binds an unbound account to a subject that has none; the subject
\* takes over whatever tenant and membership the account has.
Bind(s, e) ==
    /\ account[s] = None
    /\ reserved[e] # None
    /\ account' = [account EXCEPT ![s] = reserved[e]]
    /\ reserved' = [reserved EXCEPT ![e] = None]
    /\ UNCHANGED approved

\* The owner disables or re-enables an account or a part of it that exists.
SetStatus(s, st) ==
    /\ account[s] # None
    /\ \/ account' = [account EXCEPT ![s].user = st]
       \/ account[s].tenant # None /\ account' = [account EXCEPT ![s].tenant = st]
       \/ account[s].membership # None
             /\ account' = [account EXCEPT ![s].membership = st]
    /\ UNCHANGED <<reserved, approved>>
SetReservedStatus(e, st) ==
    /\ reserved[e] # None
    /\ \/ reserved' = [reserved EXCEPT ![e].user = st]
       \/ reserved[e].tenant # None /\ reserved' = [reserved EXCEPT ![e].tenant = st]
       \/ reserved[e].membership # None
             /\ reserved' = [reserved EXCEPT ![e].membership = st]
    /\ UNCHANGED <<account, approved>>

Next ==
    \/ \E s \in Subjects, e \in Emails : SignIn(s, e) \/ Bind(s, e)
    \/ \E e \in Emails : Approve(e)
    \/ \E s \in Subjects, st \in Status : SetStatus(s, st)
    \/ \E e \in Emails, st \in Status : SetReservedStatus(e, st)

Spec == Init /\ [][Next]_vars

-----------------------------------------------------------------------------
TypeOK ==
    /\ account \in [Subjects -> Account \cup {None}]
    /\ reserved \in [Emails -> Account \cup {None}]
    /\ \A e \in Emails : reserved[e] # None => reserved[e].email = e
    /\ approved \subseteq Emails

\* An address is the identity of at most one account, bound or not: accounts are
\* never merged on a shared address (docs/authentication.md, "no merge").
OneAccountPerAddress ==
    \A s, t \in Subjects :
        account[s] # None =>
            /\ reserved[account[s].email] = None
            /\ s # t /\ account[t] # None => account[s].email # account[t].email
=============================================================================
