-------------------------- MODULE AccountApi_proofs --------------------------
(***************************************************************************)
(* Proofs about AccountApi: revocation takes effect on the next request, and  *)
(* provisioning reports no access that a read would refuse.                   *)
(*                                                                          *)
(* A request holds no lock between its round trips, so nothing it has read is *)
(* known to be true at the next one.  The invariant says what survives: what   *)
(* has held since the request reads (met), and, as long as nothing changed      *)
(* since it provisioned (quiet), what it has read.                              *)
(***************************************************************************)
EXTENDS AccountApi, TLAPS

LEMMA NoneIsNothing ==
    /\ None \notin Subjects /\ None \notin Teams /\ None \notin Tenants
    /\ None \notin Emails /\ None \notin Id!Status /\ None \notin Id!Account
    /\ "active" \notin Tenants /\ "allowlisted" \notin Tenants
BY ApiAssumption DEF Tenants

LEMMA HoldsIs ==
    ASSUME NEW s
    PROVE  /\ Holds(s) \subseteq Conditions
           /\ "active" \in Holds(s) <=> account[s] # None /\ account[s].user = "active"
           /\ "allowlisted" \in Holds(s) <=>
                 account[s] # None /\ account[s].email \in allowlist
           /\ Access(s) \subseteq Holds(s) /\ Access(s) \subseteq Tenants
BY NoneIsNothing DEF Holds, Access, Conditions

LEMMA HoldsIsNext ==
    ASSUME NEW s
    PROVE  /\ Holds(s)' \subseteq Conditions
           /\ "active" \in Holds(s)' <=> account'[s] # None /\ account'[s].user = "active"
           /\ "allowlisted" \in Holds(s)' <=>
                 account'[s] # None /\ account'[s].email \in allowlist'
BY NoneIsNothing DEF Holds, Access, Conditions

\* What the history variables say of one request after a step.
LEMMA Observed ==
    ASSUME Observe, NEW r \in Requests, NEW s, s = req'[r].subject
    PROVE  /\ req'[r].pc \notin Reading => met'[r] = {}
           /\ req'[r].pc \in Reading =>
                 /\ met[r] \subseteq met'[r] /\ Holds(s)' \subseteq met'[r]
                 /\ Moves(s) => "allowlisted" \in met'[r]
                 /\ met'[r] \subseteq met[r] \cup Conditions
           /\ quiet'[r] \in BOOLEAN
           /\ quiet'[r] => \/ req[r].pc = "idle" /\ req'[r].pc # "idle"
                           \/ Provisions(r)
                           \/ quiet[r] /\ local' = local
<1>1. Holds(req[r].subject)' = Holds(s)'
  BY DEF Holds, Access
<1>2. Moves(req'[r].subject) = Moves(s)
  OBVIOUS
<1>3. met'[r] = IF req'[r].pc \notin Reading THEN {}
                ELSE met[r] \cup Holds(s)'
                       \cup {x \in {"allowlisted"} : Moves(s)}
  BY <1>1, <1>2 DEF Observe
<1>4. quiet'[r] = (/\ req'[r].pc # "done" /\ req'[r].kind = "post"
                   /\ \/ req[r].pc = "idle" /\ req'[r].pc # "idle"
                      \/ Provisions(r)
                      \/ quiet[r] /\ UNCHANGED local)
  BY DEF Observe
<1>5. Holds(s)' \subseteq Conditions /\ "allowlisted" \in Conditions
  BY HoldsIsNext DEF Conditions
<1>6. QED
  BY <1>3, <1>4, <1>5

LEMMA HistoryType ==
    ASSUME Inv, Observe
    PROVE  met' \in [Requests -> SUBSET Conditions] /\ quiet' \in [Requests -> BOOLEAN]
<1>1. met \in [Requests -> SUBSET Conditions]
  BY DEF Inv, TypeOK
<1>2. \A r \in Requests : met'[r] \subseteq Conditions /\ quiet'[r] \in BOOLEAN
  BY <1>1, Observed
<1>3. met' = [r \in Requests |-> met'[r]] /\ quiet' = [r \in Requests |-> quiet'[r]]
  BY DEF Observe
<1>4. QED
  BY <1>2, <1>3

LEMMA BecomeType ==
    ASSUME TypeOK, NEW r \in Requests, NEW q \in Request, Become(r, q)
    PROVE  /\ req' \in [Requests -> Request] /\ req'[r] = q
           /\ \A p \in Requests \ {r} : req'[p] = req[p]
BY DEF TypeOK, Become

-----------------------------------------------------------------------------
\* The part of the state that requests read.  It stays well typed, and an account
\* never vanishes.
Kept == /\ Id!TypeOK /\ allowlist \subseteq approved
        /\ teams \in [Subjects -> SUBSET Teams]
        /\ upstream \in [Subjects -> Emails \cup {None}]
Lasting == \A s \in Subjects : account[s] # None => account'[s] # None

LEMMA StutterKeeps ==
    ASSUME TypeOK, UNCHANGED <<local, upstream>> PROVE Kept' /\ Lasting
BY DEF TypeOK, Kept, Lasting, local, Id!TypeOK

LEMMA AccountKeeps ==
    ASSUME TypeOK, NEW s \in Subjects, NEW a \in Id!Account,
           account' = [account EXCEPT ![s] = a]
    PROVE  Lasting /\ account' \in [Subjects -> Id!Account \cup {None}]
BY NoneIsNothing DEF TypeOK, Lasting, Id!TypeOK

\* A request that does not move keeps what it has established.
LEMMA OthersOK ==
    ASSUME Inv, Observe, Lasting, NEW r \in Requests, req'[r] = req[r] PROVE RequestOK(r)'
<1>1. PICK s : s = req[r].subject
  OBVIOUS
<1>2. RequestOK(r)
  BY DEF Inv
<1>3. /\ req'[r].pc \in Reading =>
            /\ met[r] \subseteq met'[r] /\ Holds(s)' \subseteq met'[r]
            /\ Moves(s) => "allowlisted" \in met'[r]
      /\ quiet'[r] => \/ req[r].pc = "idle" /\ req'[r].pc # "idle"
                      \/ Provisions(r)
                      \/ quiet[r] /\ local' = local
  BY <1>1, Observed
<1>4. local' = local => Holds(s)' = Holds(s) /\ account' = account
  BY DEF local, Holds, Access
<1>5. req[r].pc = "allowlist" /\ account[s].email # account'[s].email => Moves(s)
  BY <1>1, <1>2 DEF RequestOK, Reading, Moves
<1>6. s \in Subjects /\ account[s] # None => account'[s] # None
  BY DEF Lasting
<1>7. Holds(req[r].subject)' = Holds(s)'
  BY <1>1 DEF Holds, Access
<1>8. QED
  BY <1>1, <1>2, <1>3, <1>4, <1>5, <1>6, <1>7 DEF RequestOK, Open, Reading, Provisions

LEMMA ActsOK ==
    ASSUME Inv, Observe, NEW r \in Requests, NEW q \in Request, Become(r, q),
           Kept', Lasting, RequestOK(r)'
    PROVE  Inv'
<1>1. req' \in [Requests -> Request] /\ \A p \in Requests \ {r} : req'[p] = req[p]
  BY BecomeType DEF Inv
<1>2. \A p \in Requests : RequestOK(p)'
  BY <1>1, OthersOK
<1>3. TypeOK'
  BY <1>1, HistoryType DEF TypeOK, Kept
<1>4. QED
  BY <1>2, <1>3 DEF Inv

\* A step that only reads establishes what the state and the history show.
LEMMA ReadOK ==
    ASSUME Inv, Observe, local' = local, NEW r \in Requests, NEW q, req'[r] = q,
           NEW s, s = q.subject,
           q.pc \in {"allowlist", "memberships"} =>
               req[r].pc \notin {"idle", "decide", "reread"},
           q.pc \in Open => s \in Subjects,
           q.pc \in {"profile", "lookup", "decide", "reread"} => q.kind = "post",
           q.kind = "post" => q.wanted = None,
           q.pc \in {"lookup", "decide", "reread"} => q.email \in Emails,
           q.pc \in Reading \ {"findUser"} =>
               account[s] # None /\ "active" \in met[r] \cup Holds(s),
           q.pc = "allowlist" => q.email = account[s].email,
           q.pc \in {"memberships", "readTenant"} => "allowlisted" \in met[r] \cup Holds(s),
           q.pc = "readTenant" => /\ q.kind = "get" /\ q.tenant \in met[r] \cup Holds(s)
                                  /\ q.wanted \in {None, q.tenant},
           quiet[r] /\ q.pc = "allowlist" => "active" \in Holds(s),
           quiet[r] /\ q.pc = "memberships" => {"active", "allowlisted"} \subseteq Holds(s)
    PROVE  RequestOK(r)'
<1>1. /\ req'[r].pc \in Reading =>
            met[r] \subseteq met'[r] /\ Holds(s)' \subseteq met'[r]
      /\ quiet'[r] => \/ req[r].pc = "idle" /\ req'[r].pc # "idle"
                      \/ Provisions(r)
                      \/ quiet[r] /\ local' = local
  BY Observed
<1>2. Holds(s)' = Holds(s) /\ account' = account
  BY DEF local, Holds, Access
<1>3. Holds(req[r].subject)' = Holds(s)'
  BY DEF Holds, Access
<1>4. QED
  BY <1>1, <1>2, <1>3 DEF RequestOK, Open, Reading, Provisions

\* An answer leaves nothing to establish.
LEMMA AnswerInv ==
    ASSUME Inv, Observe, NEW r \in Requests, NEW code \in Code, Answer(r, code),
           UNCHANGED <<local, upstream>>
    PROVE  Inv'
<1> DEFINE q == [req[r] EXCEPT !.pc = "done", !.code = code, !.wanted = None,
                             !.email = None, !.known = FALSE]
<1>1. req[r] \in Request /\ RequestOK(r)
  BY DEF Inv, TypeOK
<1>2. q \in Request /\ q.pc = "done" /\ q.kind = req[r].kind /\ q.wanted = None
  BY <1>1 DEF Request, PC
<1>3. Become(r, q)
  BY DEF Answer
<1> HIDE DEF q
<1>4. req'[r] = q
  BY <1>2, <1>3, BecomeType DEF Inv
<1>5. RequestOK(r)'
  BY <1>1, <1>2, <1>4, ReadOK DEF RequestOK, Open, Reading
<1>6. QED
  BY <1>2, <1>3, <1>5, ActsOK, StutterKeeps DEF Inv

LEMMA StartInv ==
    ASSUME Inv, Observe, NEW r \in Requests, NEW s \in Subjects,
           NEW kind \in {"get", "post"}, NEW t \in Tenants \cup {None}, Start(r, s, kind, t)
    PROVE  Inv'
<1> DEFINE b == NewRequest(kind, s, t)
           Fine(p) == /\ p \in Request /\ p.kind = kind /\ p.subject = s /\ p.wanted \in {None, t}
                      /\ p.pc \in {"done", "findUser", "profile"}
                      /\ p.pc = "profile" => kind = "post"
<1>1. b \in Request /\ b.kind = kind /\ b.subject = s /\ b.wanted = t
  BY DEF NewRequest, Request, PC, Code
<1> HIDE DEF b
<1>2. ASSUME NEW code \in {"unauthorized", "authentication-not-configured", "rate-limited"}
      PROVE  Fine([b EXCEPT !.pc = "done", !.code = code, !.wanted = None])
  BY <1>1 DEF Request, PC, Code
<1>3. Fine([b EXCEPT !.pc = "findUser"])
  BY <1>1 DEF Request, PC, Code
<1>4. kind = "post" => Fine([b EXCEPT !.pc = "profile"])
  BY <1>1 DEF Request, PC, Code
<1>5. UNCHANGED <<local, upstream>> /\ (kind = "post" => t = None) /\ req[r].pc = "idle"
  BY DEF Start
<1>6. ASSUME NEW p, Become(r, p), Fine(p) PROVE Inv'
  <2>1. req'[r] = p
    BY <1>6, BecomeType DEF Inv
  <2>2. RequestOK(r)'
    BY <1>5, <1>6, <2>1, ReadOK DEF Open, Reading
  <2>3. QED
    BY <1>5, <1>6, <2>2, ActsOK, StutterKeeps DEF Inv
<1> HIDE DEF Fine
<1>7. QED
  BY <1>2, <1>3, <1>4, <1>6 DEF Start, b

LEMMA FetchProfileInv ==
    ASSUME Inv, Observe, NEW r \in Requests, FetchProfile(r) PROVE Inv'
<1> DEFINE e == upstream[req[r].subject]
           q == [req[r] EXCEPT !.pc = "lookup", !.email = e]
<1>1. req[r] \in Request /\ RequestOK(r) /\ req[r].pc = "profile"
      /\ UNCHANGED <<local, upstream>>
  BY DEF FetchProfile, Inv, TypeOK
<1>2. req[r].subject \in Subjects /\ req[r].kind = "post" /\ e \in Emails \cup {None}
  BY <1>1 DEF RequestOK, Open, Reading, Inv, TypeOK
<1>3. CASE Answer(r, "workos-unusable") \/ Answer(r, "email-not-verified")
  BY <1>1, <1>3, AnswerInv DEF Code
<1>4. CASE e # None /\ Become(r, q)
  <2>1. q \in Request /\ q.pc = "lookup" /\ q.kind = "post" /\ q.email \in Emails
        /\ q.subject = req[r].subject /\ q.wanted = req[r].wanted
    BY <1>1, <1>2, <1>4 DEF Request, PC
  <2>2. Become(r, q)
    BY <1>4
  <2> HIDE DEF q
  <2>3. req'[r] = q
    BY <2>1, <2>2, BecomeType DEF Inv
  <2>4. RequestOK(r)'
    BY <1>1, <1>2, <2>1, <2>3, ReadOK DEF RequestOK, Open, Reading
  <2>5. QED
    BY <1>1, <2>1, <2>2, <2>4, ActsOK, StutterKeeps DEF Inv
<1>5. QED
  BY <1>3, <1>4 DEF FetchProfile

LEMMA LookupInv ==
    ASSUME Inv, Observe, NEW r \in Requests, Lookup(r) PROVE Inv'
<1> DEFINE known == account[req[r].subject] # None
           q == [req[r] EXCEPT !.pc = "decide", !.known = known]
<1>1. req[r] \in Request /\ RequestOK(r) /\ req[r].pc = "lookup"
      /\ UNCHANGED <<local, upstream>>
  BY DEF Lookup, Inv, TypeOK
<1>2. req[r].subject \in Subjects /\ req[r].kind = "post" /\ req[r].email \in Emails
      /\ req[r].wanted = None
  BY <1>1 DEF RequestOK, Open, Reading
<1>3. CASE Answer(r, "not-allowlisted")
  BY <1>1, <1>3, AnswerInv DEF Code
<1>4. CASE Become(r, q)
  <2>1. known \in BOOLEAN
    OBVIOUS
  <2>2. q \in Request /\ q.pc = "decide" /\ q.kind = "post" /\ q.email \in Emails
        /\ q.subject = req[r].subject /\ q.wanted = None
    BY <1>1, <1>2, <2>1 DEF Request, PC
  <2>3. Become(r, q)
    BY <1>4
  <2> HIDE DEF q
  <2>4. req'[r] = q
    BY <2>2, <2>3, BecomeType DEF Inv
  <2>5. RequestOK(r)'
    BY <1>1, <1>2, <2>2, <2>4, ReadOK DEF Open, Reading
  <2>6. QED
    BY <1>1, <2>2, <2>3, <2>5, ActsOK, StutterKeeps DEF Inv
<1>5. QED
  BY <1>3, <1>4 DEF Lookup

\* A sign-in writes one account, and nothing else.
LEMMA SignInKeeps ==
    ASSUME TypeOK, NEW s \in Subjects, NEW e \in Emails, Id!SignIn(s, e),
           UNCHANGED <<allowlist, teams, upstream>>
    PROVE  Kept' /\ Lasting
<1> DEFINE a == [email |-> e, user |-> "active", tenant |-> "active",
                 membership |-> "active"]
<1>1. a \in Id!Account
  BY DEF Id!Account, Id!Status
<1>2. account' = [account EXCEPT ![s] = a] /\ UNCHANGED <<reserved, approved>>
  BY DEF Id!SignIn
<1> HIDE DEF a
<1>3. Lasting /\ account' \in [Subjects -> Id!Account \cup {None}]
  BY <1>1, <1>2, AccountKeeps
<1>4. QED
  BY <1>2, <1>3 DEF TypeOK, Kept, Id!TypeOK

\* A request that provisions, or that looks at the row in its way once more.
LEMMA ProvisionInv ==
    ASSUME Inv, Observe, NEW r \in Requests, req[r].pc \in {"decide", "reread"},
           Provision(r), UNCHANGED <<allowlist, teams, upstream>>
    PROVE  Inv'
<1> DEFINE q == [req[r] EXCEPT !.pc = "findUser", !.email = None, !.known = FALSE]
<1>1. req[r] \in Request /\ RequestOK(r)
  BY DEF Inv, TypeOK
<1>2. req[r].subject \in Subjects /\ req[r].kind = "post" /\ req[r].email \in Emails
      /\ req[r].wanted = None
  BY <1>1 DEF RequestOK, Open, Reading
<1>3. CASE Answer(r, "identity-disabled") /\ UNCHANGED identity
  BY <1>3, AnswerInv DEF identity, local, Code
<1>4. CASE Id!SignIn(req[r].subject, req[r].email) /\ Go(r, "findUser")
  <2>1. Kept' /\ Lasting
    BY <1>1, <1>2, <1>4, SignInKeeps DEF Inv
  <2>2. q \in Request /\ q.pc = "findUser" /\ q.kind = "post" /\ q.wanted = None
        /\ q.subject = req[r].subject
    BY <1>1, <1>2 DEF Request, PC
  <2>3. Become(r, q)
    BY <1>4 DEF Go
  <2> HIDE DEF q
  <2>4. req'[r] = q
    BY <2>2, <2>3, BecomeType DEF Inv
  <2>5. PICK s : s = req[r].subject
    OBVIOUS
  <2>6. Holds(s)' \subseteq met'[r]
    BY <2>2, <2>4, <2>5, Observed DEF Reading
  <2>7. Holds(req[r].subject)' = Holds(s)'
    BY <2>2, <2>4, <2>5 DEF Holds, Access
  <2>8. RequestOK(r)'
    BY <1>2, <2>2, <2>4, <2>6, <2>7 DEF RequestOK, Open, Reading
  <2>9. QED
    BY <2>1, <2>2, <2>3, <2>8, ActsOK
<1>5. QED
  BY <1>3, <1>4 DEF Provision

LEMMA DecideInv ==
    ASSUME Inv, Observe, NEW r \in Requests, Decide(r) PROVE Inv'
<1> DEFINE q == [req[r] EXCEPT !.pc = "reread"]
<1>1. req[r] \in Request /\ RequestOK(r) /\ req[r].pc = "decide"
      /\ UNCHANGED <<allowlist, teams, upstream>>
  BY DEF Decide, Inv, TypeOK
<1>2. req[r].subject \in Subjects /\ req[r].kind = "post" /\ req[r].email \in Emails
      /\ req[r].wanted = None
  BY <1>1 DEF RequestOK, Open, Reading
<1>3. ASSUME NEW code \in Code, Answer(r, code), UNCHANGED identity PROVE Inv'
  BY <1>1, <1>3, AnswerInv DEF identity, local
<1>4. CASE Provision(r)
  BY <1>1, <1>4, ProvisionInv
<1>5. CASE Become(r, q) /\ UNCHANGED identity
  <2>1. q \in Request /\ q.pc = "reread" /\ q.kind = "post" /\ q.email \in Emails
        /\ q.subject = req[r].subject /\ q.wanted = None
    BY <1>1, <1>2 DEF Request, PC
  <2>2. Become(r, q) /\ UNCHANGED <<local, upstream>>
    BY <1>1, <1>5 DEF identity, local
  <2> HIDE DEF q
  <2>3. req'[r] = q
    BY <2>1, <2>2, BecomeType DEF Inv
  <2>4. RequestOK(r)'
    BY <1>2, <2>1, <2>2, <2>3, ReadOK DEF Open, Reading
  <2>5. QED
    BY <2>1, <2>2, <2>4, ActsOK, StutterKeeps DEF Inv
<1>6. QED
  BY <1>3, <1>4, <1>5 DEF Decide, Code

LEMMA RereadInv ==
    ASSUME Inv, Observe, NEW r \in Requests, Reread(r) PROVE Inv'
<1>1. req[r].pc = "reread" /\ UNCHANGED <<allowlist, teams, upstream>>
  BY DEF Reread
<1>2. ASSUME NEW code \in Code, Answer(r, code), UNCHANGED identity PROVE Inv'
  BY <1>1, <1>2, AnswerInv DEF identity, local
<1>3. QED
  BY <1>1, <1>2, ProvisionInv DEF Reread, Code

LEMMA FindUserInv ==
    ASSUME Inv, Observe, NEW r \in Requests, FindUser(r) PROVE Inv'
<1> DEFINE a == account[req[r].subject]
           q == [req[r] EXCEPT !.pc = "allowlist", !.email = a.email]
<1>1. req[r] \in Request /\ RequestOK(r) /\ req[r].pc = "findUser"
      /\ UNCHANGED <<local, upstream>>
  BY DEF FindUser, Inv, TypeOK
<1>2. req[r].subject \in Subjects /\ (req[r].kind = "post" => req[r].wanted = None)
  BY <1>1 DEF RequestOK, Open, Reading
<1>3. CASE Answer(r, "not-provisioned") \/ Answer(r, "identity-disabled")
  BY <1>1, <1>3, AnswerInv DEF Code
<1>4. CASE a # None /\ a.user = "active" /\ Become(r, q)
  <2>1. a.email \in Emails
    BY <1>2, <1>4 DEF Inv, TypeOK, Id!TypeOK, Id!Account
  <2>2. q \in Request /\ q.pc = "allowlist" /\ q.email = a.email
        /\ q.subject = req[r].subject /\ q.wanted = req[r].wanted /\ q.kind = req[r].kind
    BY <1>1, <2>1 DEF Request, PC
  <2>3. Become(r, q)
    BY <1>4
  <2>4. "active" \in Holds(req[r].subject)
    BY <1>4, HoldsIs
  <2> HIDE DEF q
  <2>5. req'[r] = q
    BY <2>2, <2>3, BecomeType DEF Inv
  <2>6. RequestOK(r)'
    BY <1>1, <1>2, <1>4, <2>2, <2>4, <2>5, ReadOK DEF Open, Reading
  <2>7. QED
    BY <1>1, <2>2, <2>3, <2>6, ActsOK, StutterKeeps DEF Inv
<1>5. QED
  BY <1>3, <1>4 DEF FindUser

LEMMA CheckAllowlistInv ==
    ASSUME Inv, Observe, NEW r \in Requests, CheckAllowlist(r) PROVE Inv'
<1> DEFINE q == [req[r] EXCEPT !.pc = "memberships", !.email = None, !.known = FALSE]
<1>1. req[r] \in Request /\ RequestOK(r) /\ req[r].pc = "allowlist"
      /\ UNCHANGED <<local, upstream>>
  BY DEF CheckAllowlist, Inv, TypeOK
<1>2. /\ req[r].subject \in Subjects /\ Holds(req[r].subject) \subseteq met[r]
      /\ (req[r].kind = "post" => req[r].wanted = None)
      /\ account[req[r].subject] # None /\ "active" \in met[r]
      /\ req[r].email = account[req[r].subject].email \/ "allowlisted" \in met[r]
      /\ quiet[r] => /\ req[r].email = account[req[r].subject].email
                     /\ "active" \in Holds(req[r].subject)
  BY <1>1 DEF RequestOK, Open, Reading
<1>3. CASE Answer(r, "not-allowlisted")
  BY <1>1, <1>3, AnswerInv DEF Code
<1>4. CASE req[r].email \in allowlist /\ Go(r, "memberships")
  <2>1. q \in Request /\ q.pc = "memberships"
        /\ q.subject = req[r].subject /\ q.wanted = req[r].wanted /\ q.kind = req[r].kind
    BY <1>1 DEF Request, PC
  <2>2. Become(r, q)
    BY <1>4 DEF Go
  <2>3. req[r].email = account[req[r].subject].email =>
          "allowlisted" \in Holds(req[r].subject)
    BY <1>2, <1>4, HoldsIs
  <2> HIDE DEF q
  <2>4. req'[r] = q
    BY <2>1, <2>2, BecomeType DEF Inv
  <2>5. RequestOK(r)'
    BY <1>1, <1>2, <2>1, <2>3, <2>4, ReadOK DEF Open, Reading
  <2>6. QED
    BY <1>1, <2>1, <2>2, <2>5, ActsOK, StutterKeeps DEF Inv
<1>5. QED
  BY <1>3, <1>4 DEF CheckAllowlist

LEMMA ListMembershipsInv ==
    ASSUME Inv, Observe, NEW r \in Requests, ListMemberships(r) PROVE Inv'
<1>1. req[r] \in Request /\ RequestOK(r) /\ req[r].pc = "memberships"
      /\ UNCHANGED <<local, upstream>>
  BY DEF ListMemberships, Inv, TypeOK
<1>2. /\ req[r].subject \in Subjects /\ account[req[r].subject] # None
      /\ (req[r].kind = "post" => req[r].wanted = None)
      /\ {"active", "allowlisted"} \subseteq met[r]
  BY <1>1 DEF RequestOK, Open, Reading
<1>3. CASE Answer(r, "no-active-membership") \/ Answer(r, "tenant-not-permitted")
  BY <1>1, <1>3, AnswerInv DEF Code
<1>4. ASSUME NEW t \in Access(req[r].subject), req[r].kind = "get",
             req[r].wanted \in {None, t},
             Become(r, [req[r] EXCEPT !.pc = "readTenant", !.tenant = t])
      PROVE  Inv'
  <2> DEFINE q == [req[r] EXCEPT !.pc = "readTenant", !.tenant = t]
  <2>1. t \in Tenants /\ t \in Holds(req[r].subject)
    BY <1>4, HoldsIs
  <2>2. q \in Request /\ q.pc = "readTenant" /\ q.tenant = t /\ q.kind = "get"
        /\ q.subject = req[r].subject /\ q.wanted = req[r].wanted
    BY <1>1, <1>4, <2>1 DEF Request, PC
  <2>3. Become(r, q)
    BY <1>4
  <2> HIDE DEF q
  <2>4. req'[r] = q
    BY <2>2, <2>3, BecomeType DEF Inv
  <2>5. RequestOK(r)'
    BY <1>1, <1>2, <1>4, <2>1, <2>2, <2>4, ReadOK DEF Open, Reading
  <2>6. QED
    BY <1>1, <2>2, <2>3, <2>5, ActsOK, StutterKeeps DEF Inv
<1>5. ASSUME NEW t \in Access(req[r].subject),
             Become(r, [req[r] EXCEPT !.pc = "done", !.code = "ok", !.tenant = t])
      PROVE  Inv'
  <2> DEFINE q == [req[r] EXCEPT !.pc = "done", !.code = "ok", !.tenant = t]
  <2>1. t \in Tenants
    BY <1>5, HoldsIs
  <2>2. q \in Request /\ q.pc = "done" /\ q.kind = req[r].kind
        /\ q.subject = req[r].subject /\ q.wanted = req[r].wanted
    BY <1>1, <2>1 DEF Request, PC, Code
  <2>3. Become(r, q)
    BY <1>5
  <2> HIDE DEF q
  <2>4. req'[r] = q
    BY <2>2, <2>3, BecomeType DEF Inv
  <2>5. RequestOK(r)'
    BY <1>1, <1>2, <2>2, <2>4, ReadOK DEF Open, Reading
  <2>6. QED
    BY <1>1, <2>2, <2>3, <2>5, ActsOK, StutterKeeps DEF Inv
<1>6. QED
  BY <1>3, <1>4, <1>5 DEF ListMemberships

LEMMA HandleInv ==
    ASSUME Inv, Observe, NEW r \in Requests, Handle(r) \/ DatabaseFails(r) PROVE Inv'
<1>1. CASE ReadTenant(r) \/ DatabaseFails(r)
  BY <1>1, AnswerInv DEF ReadTenant, DatabaseFails, Code
<1>2. QED
  BY <1>1, FetchProfileInv, LookupInv, DecideInv, RereadInv, FindUserInv, CheckAllowlistInv,
     ListMembershipsInv DEF Handle

-----------------------------------------------------------------------------
\* The owner sets one status of an unbound account, whose address stays its own.
LEMMA ReservedSet ==
    ASSUME Id!TypeOK, NEW e \in Emails, NEW st \in Id!Status, Id!SetReservedStatus(e, st)
    PROVE  \E a \in Id!Account : reserved' = [reserved EXCEPT ![e] = a] /\ a.email = e
<1>1. reserved[e] \in Id!Account /\ reserved[e].email = e
  BY DEF Id!TypeOK, Id!SetReservedStatus
<1>2. ASSUME NEW a \in {[reserved[e] EXCEPT !.user = st],
                        [reserved[e] EXCEPT !.tenant = st],
                        [reserved[e] EXCEPT !.membership = st]}
      PROVE  a \in Id!Account /\ a.email = e
  BY <1>1 DEF Id!Account
<1>3. QED
  BY <1>2 DEF Id!SetReservedStatus

\* What the owner and WorkOS change, no request notices until it reads again.
LEMMA OwnerKeeps ==
    ASSUME TypeOK, OwnerNext PROVE Kept' /\ Lasting
<1>1. ASSUME NEW s \in Subjects, NEW e \in Emails, BindSubject(s, e) PROVE Kept' /\ Lasting
  <2>1. reserved[e] \in Id!Account
    BY <1>1 DEF BindSubject, Id!Bind, TypeOK, Id!TypeOK
  <2>2. /\ account' = [account EXCEPT ![s] = reserved[e]]
        /\ reserved' = [reserved EXCEPT ![e] = None]
    BY <1>1 DEF BindSubject, Id!Bind
  <2>3. Lasting /\ account' \in [Subjects -> Id!Account \cup {None}]
    BY <2>1, <2>2, AccountKeeps
  <2>4. QED
    BY <1>1, <2>2, <2>3 DEF BindSubject, Id!Bind, TypeOK, Kept, Id!TypeOK
<1>2. ASSUME NEW s \in Subjects, NEW st \in Id!Status, SetStatus(s, st)
      PROVE  Kept' /\ Lasting
  <2>1. account[s] \in Id!Account
    BY <1>2 DEF SetStatus, Id!SetStatus, TypeOK, Id!TypeOK
  <2>2. PICK a \in Id!Account : account' = [account EXCEPT ![s] = a]
    <3>1. /\ [account[s] EXCEPT !.user = st] \in Id!Account
          /\ [account[s] EXCEPT !.tenant = st] \in Id!Account
          /\ [account[s] EXCEPT !.membership = st] \in Id!Account
      BY <2>1 DEF Id!Account
    <3>2. QED
      BY <1>2, <3>1 DEF SetStatus, Id!SetStatus
  <2>3. Lasting /\ account' \in [Subjects -> Id!Account \cup {None}]
    BY <2>2, AccountKeeps
  <2>4. QED
    BY <1>2, <2>3 DEF SetStatus, Id!SetStatus, TypeOK, Kept, Id!TypeOK
<1>3. ASSUME NEW s \in Subjects, NEW t \in Teams, SetTeam(s, t) PROVE Kept' /\ Lasting
  BY <1>3 DEF SetTeam, TypeOK, Kept, Lasting, identity, Id!TypeOK
<1>4. ASSUME NEW e \in Emails, AllowlistAdd(e) \/ AllowlistRemove(e)
      PROVE  Kept' /\ Lasting
  BY <1>4 DEF AllowlistAdd, AllowlistRemove, Id!Approve, TypeOK, Kept, Lasting,
     identity, Id!TypeOK
<1>5. ASSUME NEW e \in Emails, NEW st \in Id!Status, SetReservedStatus(e, st)
      PROVE  Kept' /\ Lasting
  <2>1. PICK a \in Id!Account : reserved' = [reserved EXCEPT ![e] = a] /\ a.email = e
    BY <1>5, ReservedSet DEF SetReservedStatus, TypeOK
  <2>2. QED
    BY <1>5, <2>1 DEF SetReservedStatus, Id!SetReservedStatus, TypeOK, Kept, Lasting,
       Id!TypeOK
<1>6. ASSUME NEW s \in Subjects, NEW e \in Emails \cup {None}, ChangeProfile(s, e)
      PROVE  Kept' /\ Lasting
  BY <1>6 DEF ChangeProfile, TypeOK, Kept, Lasting, local, Id!TypeOK
<1>7. QED
  BY <1>1, <1>2, <1>3, <1>4, <1>5, <1>6 DEF OwnerNext

LEMMA OwnerInv ==
    ASSUME Inv, Observe, OwnerNext PROVE Inv'
<1>1. req' = req
  BY DEF OwnerNext, Owner, AllowlistAdd, AllowlistRemove, BindSubject, SetStatus,
     SetReservedStatus, SetTeam, ChangeProfile
<1>2. Kept' /\ Lasting
  BY OwnerKeeps DEF Inv
<1>3. \A r \in Requests : RequestOK(r)'
  BY <1>1, <1>2, OthersOK
<1>4. TypeOK'
  BY <1>1, <1>2, HistoryType DEF TypeOK, Kept, Inv
<1>5. QED
  BY <1>3, <1>4 DEF Inv

\* The unbound accounts there are at the start.
LEMMA IdInitTyped ==
    ASSUME Id!Init PROVE Id!TypeOK /\ Id!OneAccountPerAddress
<1>1. ASSUME NEW e \in Emails, NEW a \in Id!Unbound(e)
      PROVE  a \in Id!Account /\ a.email = e
  BY <1>1 DEF Id!Unbound, Id!Account, Id!Status
<1>2. \A e \in Emails : reserved[e] \in Id!Unbound(e) \cup {None}
  BY DEF Id!Init
<1>3. reserved = [e \in Emails |-> reserved[e]]
  BY DEF Id!Init
<1>4. QED
  BY <1>1, <1>2, <1>3 DEF Id!Init, Id!TypeOK, Id!OneAccountPerAddress

LEMMA InitInv ==
    ASSUME Init PROVE Inv
<1>1. NewRequest("get", None, None) \in Request
      /\ NewRequest("get", None, None).pc = "idle"
      /\ NewRequest("get", None, None).wanted = None
  BY DEF NewRequest, Request, PC, Code
<1>2. \A r \in Requests : req[r] = NewRequest("get", None, None)
  BY DEF Init
<1>3. \A r \in Requests : RequestOK(r)
  BY <1>1, <1>2 DEF RequestOK, Open, Reading
<1>4. Id!TypeOK
  BY IdInitTyped DEF Init
<1>5. TypeOK
  BY <1>1, <1>2, <1>4 DEF Init, TypeOK, Id!Init
<1>6. QED
  BY <1>3, <1>5 DEF Inv

LEMMA NextInv ==
    ASSUME Inv, [Next]_vars PROVE Inv'
<1>1. CASE UNCHANGED vars
  <2>1. \A r \in Requests : Holds(req[r].subject)' = Holds(req[r].subject)
    BY <1>1 DEF vars, local, Holds, Access
  <2>2. \A r \in Requests : RequestOK(r)'
    BY <1>1, <2>1 DEF vars, local, Inv, RequestOK, Reading, Open
  <2>3. QED
    BY <1>1, <2>2 DEF vars, local, Inv, TypeOK, Id!TypeOK
<1>2. CASE Next
  BY <1>2, StartInv, HandleInv, OwnerInv DEF Next
<1>3. QED
  BY <1>1, <1>2

\* What a request has established at each point of its round trips, for every number
\* of requests, subjects, addresses and teams.
THEOREM Invariance == Spec => []Inv
<1>1. Init => Inv
  BY InitInv
<1>2. Inv /\ [Next]_vars => Inv'
  BY NextInv
<1>3. QED
  BY <1>1, <1>2, PTL DEF Spec

-----------------------------------------------------------------------------
\* A step of another request, or of the owner, answers nothing.
LEMMA BecomeOthers ==
    ASSUME Inv, NEW p \in Requests, NEW q, Become(p, q), NEW r \in Requests
    PROVE  req'[r] = IF r = p THEN q ELSE req[r]
BY DEF Inv, TypeOK, Become

LEMMA StepOfOne ==
    ASSUME Inv, Next, NEW r \in Requests, req'[r] # req[r]
    PROVE  \/ \E s \in Subjects, kind \in {"get", "post"}, t \in Tenants \cup {None} :
                 Start(r, s, kind, t)
           \/ Handle(r) \/ DatabaseFails(r)
<1>1. ASSUME NEW p \in Requests, NEW q, Become(p, q) PROVE p = r
  BY <1>1, BecomeOthers
<1>2. ASSUME OwnerNext PROVE FALSE
  BY <1>2 DEF OwnerNext, Owner, AllowlistAdd, AllowlistRemove, BindSubject, SetStatus,
     SetReservedStatus, SetTeam, ChangeProfile
<1>3. ASSUME NEW p \in Requests, NEW s \in Subjects, NEW kind \in {"get", "post"},
             NEW t \in Tenants \cup {None}, Start(p, s, kind, t)
      PROVE  p = r
  BY <1>1, <1>3 DEF Start
<1>4. ASSUME NEW p \in Requests, DatabaseFails(p) PROVE p = r
  BY <1>1, <1>4 DEF DatabaseFails, Answer
<1>5. ASSUME NEW p \in Requests, Handle(p) PROVE p = r
  <2>1. ASSUME FetchProfile(p) \/ Lookup(p) \/ FindUser(p) PROVE p = r
    BY <1>1, <2>1 DEF FetchProfile, Lookup, FindUser, Answer
  <2>2. ASSUME Decide(p) \/ Reread(p) PROVE p = r
    BY <1>1, <2>2 DEF Decide, Reread, Provision, Answer, Go
  <2>3. ASSUME CheckAllowlist(p) \/ ReadTenant(p) PROVE p = r
    BY <1>1, <2>3 DEF CheckAllowlist, ReadTenant, Answer, Go
  <2>4. ASSUME ListMemberships(p) PROVE p = r
    BY <1>1, <2>4 DEF ListMemberships, Answer
  <2>5. QED
    BY <1>5, <2>1, <2>2, <2>3, <2>4 DEF Handle
<1>6. QED
  BY <1>2, <1>3, <1>4, <1>5 DEF Next

\* The two ways to be answered with a tenant: the tenant of a GET has been read, or
\* the accounts of a POST have been listed.
LEMMA AnswersOk ==
    ASSUME Inv, Next, NEW r \in Requests, Answers(r, "ok")
    PROVE  \/ req[r].pc = "readTenant" /\ req'[r].tenant = req[r].tenant
           \/ /\ req[r].pc = "memberships" /\ req[r].kind = "post"
              /\ req'[r].tenant \in Access(req[r].subject)
<1>1. req'[r] # req[r] /\ req'[r].pc = "done" /\ req'[r].code = "ok"
  BY DEF Answers
<1>2. req[r] \in Request
  BY DEF Inv, TypeOK
<1>3. ASSUME NEW code, Answer(r, code)
      PROVE  code = "ok" /\ req'[r].tenant = req[r].tenant
  <2>1. req'[r] = [req[r] EXCEPT !.pc = "done", !.code = code, !.wanted = None,
                                 !.email = None, !.known = FALSE]
    BY <1>3, BecomeOthers DEF Answer
  <2>2. QED
    BY <1>1, <1>2, <2>1 DEF Request
<1>4. ASSUME NEW q, Become(r, q) PROVE q.pc = "done" /\ q.code = "ok" /\ q = req'[r]
  BY <1>1, <1>4, BecomeOthers
<1>5. ASSUME NEW s \in Subjects, NEW kind \in {"get", "post"},
             NEW t \in Tenants \cup {None}, Start(r, s, kind, t)
      PROVE  FALSE
  <2> DEFINE b == NewRequest(kind, s, t)
  <2>1. b \in Request
    BY DEF NewRequest, Request, PC, Code
  <2>2. Start(r, s, kind, t) =>
           \/ Become(r, [b EXCEPT !.pc = "done", !.code = "unauthorized", !.wanted = None])
           \/ Become(r, [b EXCEPT !.pc = "done", !.code = "authentication-not-configured",
                                  !.wanted = None])
           \/ Become(r, [b EXCEPT !.pc = "done", !.code = "rate-limited", !.wanted = None])
           \/ Become(r, [b EXCEPT !.pc = "findUser"])
           \/ Become(r, [b EXCEPT !.pc = "profile"])
    BY DEF Start
  <2> HIDE DEF b
  <2>3. /\ [b EXCEPT !.pc = "done", !.code = "unauthorized", !.wanted = None].code # "ok"
        /\ [b EXCEPT !.pc = "done", !.code = "authentication-not-configured",
                     !.wanted = None].code # "ok"
        /\ [b EXCEPT !.pc = "done", !.code = "rate-limited", !.wanted = None].code # "ok"
        /\ [b EXCEPT !.pc = "findUser"].pc # "done"
        /\ [b EXCEPT !.pc = "profile"].pc # "done"
    BY <2>1 DEF Request
  <2>4. QED
    BY <1>4, <1>5, <2>2, <2>3
<1>6. ~DatabaseFails(r)
  BY <1>3 DEF DatabaseFails
<1>7. ~FetchProfile(r) /\ ~Lookup(r) /\ ~FindUser(r)
  <2>1. ~FetchProfile(r)
    <3> DEFINE e == upstream[req[r].subject]
               q == [req[r] EXCEPT !.pc = "lookup", !.email = e]
    <3>1. FetchProfile(r) => \/ Answer(r, "workos-unusable")
                             \/ Answer(r, "email-not-verified") \/ Become(r, q)
      BY DEF FetchProfile
    <3> HIDE DEF e
    <3>2. q.pc # "done"
      BY <1>2 DEF Request
    <3> HIDE DEF q
    <3>3. QED
      BY <1>3, <1>4, <3>1, <3>2
  <2>2. ~Lookup(r)
    <3> DEFINE known == account[req[r].subject] # None
               q == [req[r] EXCEPT !.pc = "decide", !.known = known]
    <3>1. known \in BOOLEAN
      OBVIOUS
    <3>2. Lookup(r) => Answer(r, "not-allowlisted") \/ Become(r, q)
      BY DEF Lookup
    <3> HIDE DEF known
    <3>3. q.pc # "done"
      BY <1>2, <3>1 DEF Request
    <3> HIDE DEF q
    <3>4. QED
      BY <1>3, <1>4, <3>2, <3>3
  <2>3. ~FindUser(r)
    <3> DEFINE e == account[req[r].subject].email
               q == [req[r] EXCEPT !.pc = "allowlist", !.email = e]
    <3>1. FindUser(r) => \/ Answer(r, "not-provisioned") \/ Answer(r, "identity-disabled")
                         \/ Become(r, q)
      BY DEF FindUser
    <3> HIDE DEF e
    <3>2. q.pc # "done"
      BY <1>2 DEF Request
    <3> HIDE DEF q
    <3>3. QED
      BY <1>3, <1>4, <3>1, <3>2
  <2>4. QED
    BY <2>1, <2>2, <2>3
<1>8. ~Decide(r) /\ ~Reread(r) /\ ~CheckAllowlist(r)
  <2>1. ASSUME NEW next \in {"findUser", "memberships"}, Go(r, next) PROVE FALSE
    <3> DEFINE q == [req[r] EXCEPT !.pc = next, !.email = None, !.known = FALSE]
    <3>1. q.pc # "done"
      BY <1>2 DEF Request
    <3>2. Become(r, q)
      BY <2>1 DEF Go
    <3> HIDE DEF q
    <3>3. QED
      BY <1>4, <3>1, <3>2
  <2>2. ~Become(r, [req[r] EXCEPT !.pc = "reread"])
    <3> DEFINE q == [req[r] EXCEPT !.pc = "reread"]
    <3>1. q.pc # "done"
      BY <1>2 DEF Request
    <3> HIDE DEF q
    <3>2. ~Become(r, q)
      BY <1>4, <3>1
    <3>3. QED
      BY <3>2 DEF q
  <2>3. QED
    BY <1>3, <2>1, <2>2 DEF Decide, Reread, Provision, CheckAllowlist
<1>9. ASSUME ReadTenant(r)
      PROVE  req[r].pc = "readTenant" /\ req'[r].tenant = req[r].tenant
  BY <1>3, <1>9 DEF ReadTenant
<1>10. ASSUME ListMemberships(r)
       PROVE  /\ req[r].pc = "memberships" /\ req[r].kind = "post"
              /\ req'[r].tenant \in Access(req[r].subject)
  <2>1. ~Answer(r, "no-active-membership") /\ ~Answer(r, "tenant-not-permitted")
    BY <1>3
  <2>2. PICK t \in Access(req[r].subject) :
           \/ Become(r, [req[r] EXCEPT !.pc = "readTenant", !.tenant = t])
           \/ /\ req[r].kind = "post"
              /\ Become(r, [req[r] EXCEPT !.pc = "done", !.code = "ok", !.tenant = t])
    BY <1>10, <2>1 DEF ListMemberships
  <2>3. t \in Tenants
    BY <2>2, HoldsIs
  <2>4. /\ [req[r] EXCEPT !.pc = "readTenant", !.tenant = t].pc # "done"
        /\ [req[r] EXCEPT !.pc = "done", !.code = "ok", !.tenant = t].tenant = t
    BY <1>2, <2>3 DEF Request
  <2>5. QED
    BY <1>4, <1>10, <2>2, <2>4 DEF ListMemberships
<1>11. QED
  BY <1>1, <1>5, <1>6, <1>7, <1>8, <1>9, <1>10, StepOfOne DEF Handle

\* Revocation takes effect on the next request, whatever other requests, the owner
\* and WorkOS do between the reads of this one.
THEOREM Revocation == Spec => RevocationIsEffective
<1>1. Inv /\ [Next]_vars =>
         [\A r \in Requests : Answers(r, "ok") =>
            /\ {"active", "allowlisted", req'[r].tenant} \subseteq met[r]
            /\ req[r].wanted \in {None, req'[r].tenant}]_vars
  <2> SUFFICES ASSUME Inv, Next, NEW r \in Requests, Answers(r, "ok")
               PROVE  /\ {"active", "allowlisted", req'[r].tenant} \subseteq met[r]
                      /\ req[r].wanted \in {None, req'[r].tenant}
    OBVIOUS
  <2>1. RequestOK(r)
    BY DEF Inv
  <2>2. CASE req[r].pc = "readTenant" /\ req'[r].tenant = req[r].tenant
    BY <2>1, <2>2 DEF RequestOK, Open, Reading
  <2>3. CASE /\ req[r].pc = "memberships" /\ req[r].kind = "post"
             /\ req'[r].tenant \in Access(req[r].subject)
    BY <2>1, <2>3, HoldsIs DEF RequestOK, Open, Reading
  <2>4. QED
    BY <2>2, <2>3, AnswersOk
<1>2. QED
  BY <1>1, Invariance, PTL DEF Spec, RevocationIsEffective

\* Provisioning can never report access that a following GET would deny, as long as
\* nothing has changed in between.
THEOREM NoEscalation == Spec => PostImpliesGet
<1>1. Inv /\ [Next]_vars =>
         [\A r \in Requests : Answers(r, "ok") /\ req[r].kind = "post" /\ quiet[r] =>
            \E t \in Tenants :
               {"active", "allowlisted", t} \subseteq Holds(req[r].subject)]_vars
  <2> SUFFICES ASSUME Inv, Next, NEW r \in Requests, Answers(r, "ok"),
                      req[r].kind = "post", quiet[r]
               PROVE  \E t \in Tenants :
                         {"active", "allowlisted", t} \subseteq Holds(req[r].subject)
    OBVIOUS
  <2>1. RequestOK(r)
    BY DEF Inv
  <2>2. req[r].pc = "memberships" /\ req'[r].tenant \in Access(req[r].subject)
    BY <2>1, AnswersOk DEF RequestOK
  <2>3. {"active", "allowlisted"} \subseteq Holds(req[r].subject)
    BY <2>1, <2>2 DEF RequestOK
  <2>4. QED
    BY <2>2, <2>3, HoldsIs
<1>2. QED
  BY <1>1, Invariance, PTL DEF Spec, PostImpliesGet
-----------------------------------------------------------------------------
(***************************************************************************)
(* The identities: what IdentitySpec promises, and that the API keeps to it.  *)
(***************************************************************************)
LEMMA AccountFacts ==
    ASSUME Id!NoneIsNew, NEW a \in Id!Account
    PROVE  a # None /\ a.email \in Emails
BY DEF Id!NoneIsNew, Id!Account

\* One step of IdentitySpec keeps every address with at most one account.
LEMMA StepKeepsAddresses ==
    ASSUME Id!NoneIsNew, Id!TypeOK, Id!OneAccountPerAddress, [Id!Next]_Id!vars
    PROVE  Id!TypeOK' /\ Id!OneAccountPerAddress'
<1>1. ASSUME NEW s \in Subjects, NEW e \in Emails, Id!SignIn(s, e)
      PROVE  Id!TypeOK' /\ Id!OneAccountPerAddress'
  <2> DEFINE a == [email |-> e, user |-> "active", tenant |-> "active",
                   membership |-> "active"]
  <2>1. a \in Id!Account /\ a.email = e
    BY DEF Id!Account, Id!Status
  <2>2. account' = [account EXCEPT ![s] = a] /\ Id!Available(e, s)
        /\ reserved' = reserved /\ approved' = approved
    BY <1>1 DEF Id!SignIn
  <2> HIDE DEF a
  <2>3. \A t \in Subjects : account'[t] = IF t = s THEN a ELSE account[t]
    BY <2>2 DEF Id!TypeOK
  <2>4. Id!TypeOK'
    BY <2>1, <2>2 DEF Id!TypeOK
  <2>5. Id!OneAccountPerAddress'
    BY <2>1, <2>2, <2>3 DEF Id!OneAccountPerAddress, Id!Available
  <2>6. QED
    BY <2>4, <2>5
<1>2. ASSUME NEW s \in Subjects, NEW e \in Emails, Id!Bind(s, e)
      PROVE  Id!TypeOK' /\ Id!OneAccountPerAddress'
  <2> DEFINE a == reserved[e]
  <2>1. a \in Id!Account /\ a.email = e
    BY <1>2 DEF Id!Bind, Id!TypeOK
  <2>2. account' = [account EXCEPT ![s] = a] /\ reserved' = [reserved EXCEPT ![e] = None]
        /\ approved' = approved /\ reserved[e] # None
    BY <1>2 DEF Id!Bind
  <2> HIDE DEF a
  <2>3. /\ \A t \in Subjects : account'[t] = IF t = s THEN a ELSE account[t]
        /\ \A f \in Emails : reserved'[f] = IF f = e THEN None ELSE reserved[f]
    BY <2>2 DEF Id!TypeOK
  <2>4. Id!TypeOK'
    BY <2>1, <2>2 DEF Id!TypeOK
  <2>5. \A t \in Subjects : account[t] # None => account[t].email \in Emails \ {e}
    <3>1. SUFFICES ASSUME NEW t \in Subjects, account[t] # None
                   PROVE  account[t].email \in Emails \ {e}
      OBVIOUS
    <3>2. account[t] \in Id!Account
      BY <3>1 DEF Id!TypeOK
    <3>3. QED
      BY <2>2, <3>1, <3>2, AccountFacts DEF Id!OneAccountPerAddress
  <2>6. Id!OneAccountPerAddress'
    BY <2>1, <2>2, <2>3, <2>5 DEF Id!OneAccountPerAddress
  <2>7. QED
    BY <2>4, <2>6
<1>3. ASSUME NEW e \in Emails, Id!Approve(e) PROVE Id!TypeOK' /\ Id!OneAccountPerAddress'
  BY <1>3 DEF Id!Approve, Id!TypeOK, Id!OneAccountPerAddress
<1>4. ASSUME NEW s \in Subjects, NEW st \in Id!Status, Id!SetStatus(s, st)
      PROVE  Id!TypeOK' /\ Id!OneAccountPerAddress'
  <2>1. account[s] \in Id!Account /\ reserved' = reserved /\ approved' = approved
    BY <1>4 DEF Id!SetStatus, Id!TypeOK
  <2>2. PICK a \in Id!Account : account' = [account EXCEPT ![s] = a] /\ a.email = account[s].email
    <3>1. CASE account' = [account EXCEPT ![s].user = st]
      <4> DEFINE b == [account[s] EXCEPT !.user = st]
      <4>1. b \in Id!Account /\ b.email = account[s].email
        BY <2>1 DEF Id!Account
      <4>2. account' = [account EXCEPT ![s] = b]
        BY <3>1
      <4>3. QED
        BY <4>1, <4>2
    <3>2. CASE account' = [account EXCEPT ![s].tenant = st]
      <4> DEFINE b == [account[s] EXCEPT !.tenant = st]
      <4>1. b \in Id!Account /\ b.email = account[s].email
        BY <2>1 DEF Id!Account
      <4>2. account' = [account EXCEPT ![s] = b]
        BY <3>2
      <4>3. QED
        BY <4>1, <4>2
    <3>3. CASE account' = [account EXCEPT ![s].membership = st]
      <4> DEFINE b == [account[s] EXCEPT !.membership = st]
      <4>1. b \in Id!Account /\ b.email = account[s].email
        BY <2>1 DEF Id!Account
      <4>2. account' = [account EXCEPT ![s] = b]
        BY <3>3
      <4>3. QED
        BY <4>1, <4>2
    <3>4. QED
      BY <1>4, <3>1, <3>2, <3>3 DEF Id!SetStatus
  <2>3. \A t \in Subjects : account'[t] = IF t = s THEN a ELSE account[t]
    BY <2>2 DEF Id!TypeOK
  <2>4. Id!TypeOK'
    BY <2>1, <2>2 DEF Id!TypeOK
  <2>5. Id!OneAccountPerAddress'
    BY <1>4, <2>1, <2>2, <2>3 DEF Id!OneAccountPerAddress, Id!SetStatus
  <2>6. QED
    BY <2>4, <2>5
<1>5. ASSUME NEW e \in Emails, NEW st \in Id!Status, Id!SetReservedStatus(e, st)
      PROVE  Id!TypeOK' /\ Id!OneAccountPerAddress'
  <2>1. /\ reserved[e] # None /\ account' = account /\ approved' = approved
        /\ \E a \in Id!Account : reserved' = [reserved EXCEPT ![e] = a] /\ a.email = e
    BY <1>5, ReservedSet DEF Id!SetReservedStatus
  <2>2. Id!TypeOK'
    BY <2>1 DEF Id!TypeOK
  <2>3. \A f \in Emails : reserved[f] = None => reserved'[f] = None
    BY <2>1 DEF Id!TypeOK
  <2>4. \A t \in Subjects : account[t] # None => account[t].email \in Emails
    BY AccountFacts DEF Id!TypeOK
  <2>5. Id!OneAccountPerAddress'
    BY <2>1, <2>3, <2>4 DEF Id!OneAccountPerAddress
  <2>6. QED
    BY <2>2, <2>5
<1>6. CASE UNCHANGED Id!vars
  BY <1>6 DEF Id!vars, Id!TypeOK, Id!OneAccountPerAddress
<1>7. QED
  BY <1>1, <1>2, <1>3, <1>4, <1>5, <1>6 DEF Id!Next

\* No two accounts, bound to a subject or not, ever share an address.
THEOREM AddressesAreExclusive ==
    ASSUME Id!NoneIsNew
    PROVE  Id!Spec => [](Id!TypeOK /\ Id!OneAccountPerAddress)
<1>1. Id!Init => Id!TypeOK /\ Id!OneAccountPerAddress
  BY IdInitTyped
<1>2. Id!TypeOK /\ Id!OneAccountPerAddress /\ [Id!Next]_Id!vars => (Id!TypeOK /\ Id!OneAccountPerAddress)'
  BY StepKeepsAddresses
<1>3. QED
  BY <1>1, <1>2, PTL DEF Id!Spec

\* What a request, the owner or WorkOS does to the accounts is a step of IdentitySpec.
LEMMA IdentityStep ==
    ASSUME \/ OwnerNext
           \/ \E r \in Requests : Handle(r) \/ DatabaseFails(r)
           \/ UNCHANGED local,
           \A r \in Requests : req[r].pc \in {"decide", "reread"} =>
              req[r].subject \in Subjects /\ req[r].email \in Emails
    PROVE  [Id!Next]_Id!vars
<1>1. ASSUME NEW r \in Requests, Decide(r) \/ Reread(r) PROVE [Id!Next]_Id!vars
  <2>1. req[r].subject \in Subjects /\ req[r].email \in Emails
    BY <1>1 DEF Decide, Reread
  <2>2. UNCHANGED identity \/ Id!SignIn(req[r].subject, req[r].email)
    BY <1>1 DEF Decide, Reread, Provision
  <2>3. QED
    BY <2>1, <2>2 DEF Id!Next, Id!vars, identity
<1>2. ASSUME NEW r \in Requests, Handle(r) \/ DatabaseFails(r), ~Decide(r), ~Reread(r)
      PROVE  UNCHANGED local
  BY <1>2 DEF Handle, DatabaseFails, FetchProfile, Lookup, FindUser, CheckAllowlist,
              ListMemberships, ReadTenant
<1>3. CASE OwnerNext
  BY <1>3 DEF OwnerNext, AllowlistAdd, AllowlistRemove, BindSubject, SetStatus,
              SetReservedStatus, SetTeam, ChangeProfile, local, identity, Id!Next, Id!vars
<1>4. CASE UNCHANGED local
  BY <1>4 DEF local, Id!vars
<1>5. QED
  BY <1>1, <1>2, <1>3, <1>4

\* Over however many round trips a request decides, and whatever others do meanwhile,
\* the accounts change only by sign-ins that are atomic and by the owner's operations.
LEMMA ApiImplementsIdentity == Spec => Id!Spec
<1>1. Init => Id!Init
  BY DEF Init
<1>2. Inv /\ [Next]_vars => [Id!Next]_Id!vars
  <2>1. Next => \/ OwnerNext
                \/ \E r \in Requests : Handle(r) \/ DatabaseFails(r)
                \/ UNCHANGED local
    BY DEF Next, Start
  <2>2. UNCHANGED vars => UNCHANGED local
    BY DEF vars
  <2>3. Inv => \A r \in Requests : req[r].pc \in {"decide", "reread"} =>
                  req[r].subject \in Subjects /\ req[r].email \in Emails
    BY DEF Inv, RequestOK, Open
  <2>4. QED
    BY <2>1, <2>2, <2>3, IdentityStep
<1>3. QED
  BY <1>1, <1>2, Invariance, PTL DEF Spec, Id!Spec

\* So no request, however it is interleaved, merges two accounts on one address.
THEOREM ApiNeverMerges == Spec => []Id!OneAccountPerAddress
<1>1. Id!NoneIsNew
  BY NoneIsNothing DEF Id!NoneIsNew
<1>2. QED
  BY <1>1, ApiImplementsIdentity, AddressesAreExclusive, PTL
=============================================================================
