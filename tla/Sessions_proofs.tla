--------------------------- MODULE Sessions_proofs ---------------------------
(***************************************************************************)
(* The types of Sessions, the line of tokens in every family, and the      *)
(* bound on what the guard's cache may miss, for any number of tabs,       *)
(* tokens and changes of the users row, and any TTL.                       *)
(*                                                                         *)
(* SessionsTypeOK alone is not inductive: what a request holds has to fit the      *)
(* place where its handler is (Kept).                                      *)
(***************************************************************************)
EXTENDS Sessions, TLAPS

TokenRows == [family : 1..MaxTokens, parent : 0..MaxTokens, revoked : BOOLEAN]

\* What a request in slot s holds while n tokens exist.
Kept(c, s, n) ==
  c # Idle =>
    /\ c \in Calls
    /\ c.token \in 0..n
    /\ c.op \in Guarded \union {"login"} => s = "main"
    /\ c.pc \in {"found", "replayed", "familyRevoked"} => c.op \in Refreshes /\ c.token # 0
    /\ c.pc = "reading" => c.op \in Guarded /\ c.row \in UserRows
    /\ c.pc = "answered" => c.reply \in Replies /\ c.reply.token \in 0..n

CallsKept ==
  /\ call \in [Tabs -> [Slots -> Calls \union {Idle}]]
  /\ \A t \in Tabs, s \in Slots : Kept(call[t][s], s, Len(tokens))

\* The rest of the types.
RowsTyped ==
  /\ tokens \in Seq(TokenRows) /\ Len(tokens) <= MaxTokens
  /\ user \in [tv : 0..MaxChanges, active : BOOLEAN]
  /\ cache \in [tv : 0..MaxChanges, active : BOOLEAN, until : Nat, took : Int]
               \union {Absent}
  /\ jar \in [refresh : 0..Len(tokens), access : Version]
  /\ tab \in [Tabs -> [state : {"closed", "loading", "signedIn", "signedOut"},
                      attempt : 0..Attempts]]
  /\ changed \in 0..LastTick \union {Absent}
  /\ clock \in 0..LastTick

TypeInv == RowsTyped /\ CallsKept

LEMMA TypesFollow == TypeInv => SessionsTypeOK
BY DEF TypeInv, RowsTyped, CallsKept, SessionsTypeOK, Kept, TokenRows

LEMMA InitTypes == SessionsInit => TypeInv
BY SessionsAssumption
   DEF SessionsInit, TypeInv, RowsTyped, CallsKept, Kept, Version, Slots, Idle, Calls, TokenRows

-----------------------------------------------------------------------------
\* A request that is put into a slot leaves the others as they were.
LEMMA PutKept ==
  ASSUME CallsKept, NEW t \in Tabs, NEW s \in Slots, NEW c \in Calls \union {Idle},
         Put(t, s, c),
         Len(tokens) \in Nat, Len(tokens') \in Nat, Len(tokens) <= Len(tokens'),
         Kept(c, s, Len(tokens'))
  PROVE  CallsKept'
<1>1. call' = [call EXCEPT ![t] = [call[t] EXCEPT ![s] = c]]
  BY DEF Put
<1>2. call' \in [Tabs -> [Slots -> Calls \union {Idle}]]
  BY <1>1 DEF CallsKept
<1>3. ASSUME NEW u \in Tabs, NEW r \in Slots
      PROVE  Kept(call'[u][r], r, Len(tokens'))
  <2>1. CASE u = t /\ r = s
    BY <1>1, <2>1 DEF CallsKept
  <2>2. CASE ~ (u = t /\ r = s)
    <3>1. call'[u][r] = call[u][r]
      BY <1>1, <2>2 DEF CallsKept
    <3>2. Kept(call[u][r], r, Len(tokens))
      BY DEF CallsKept
    <3> QED
      BY <3>1, <3>2 DEF Kept, Calls, Replies
  <2> QED
    BY <2>1, <2>2
<1> QED
  BY <1>2, <1>3 DEF CallsKept

\* A handler works on a request that is not idle.
LEMMA AtWork ==
  ASSUME CallsKept, NEW t \in Tabs, NEW s \in Slots, NEW ops, NEW pc,
         At(t, s, ops, pc), "idle" \notin ops
  PROVE  /\ Call(t, s) # Idle /\ Call(t, s) \in Calls
         /\ Call(t, s).op \in ops /\ Call(t, s).pc = pc
         /\ Kept(Call(t, s), s, Len(tokens))
BY DEF At, Call, CallsKept, Idle

\* A refresh is at a token that exists once its row was found.
LEMMA AtRefresh ==
  ASSUME TypeInv, NEW t \in Tabs, NEW s \in Slots,
         NEW pc \in {"sent", "found", "replayed", "familyRevoked"}, At(t, s, Refreshes, pc)
  PROVE  /\ Call(t, s) # Idle /\ Call(t, s) \in Calls /\ Call(t, s).op \in Refreshes
         /\ Kept(Call(t, s), s, Len(tokens))
         /\ Call(t, s).token \in 0..Len(tokens)
         /\ pc # "sent" => Call(t, s).token # 0
         /\ CallsKept /\ Len(tokens) \in Nat /\ Len(tokens) <= MaxTokens
<1>1. "idle" \notin Refreshes
  BY DEF Refreshes
<1>2. CallsKept /\ Len(tokens) \in Nat /\ Len(tokens) <= MaxTokens
  BY DEF TypeInv, RowsTyped
<1>3. /\ Call(t, s) # Idle /\ Call(t, s) \in Calls /\ Call(t, s).op \in Refreshes
      /\ Kept(Call(t, s), s, Len(tokens)) /\ Call(t, s).pc = pc
  BY <1>1, <1>2, AtWork
<1> QED
  BY <1>2, <1>3 DEF Kept

\* A request as it leaves the browser.
LEMMA SentKept ==
  ASSUME TypeInv, NEW op \in Refreshes \union Guarded \union {"login"}, NEW s \in Slots,
         op \in Guarded \union {"login"} => s = "main"
  PROVE  Sent(op) \in Calls /\ Sent(op) # Idle /\ Kept(Sent(op), s, Len(tokens))
<1>1. jar.refresh \in 0..Len(tokens) /\ jar.access \in Version /\ Len(tokens) \in Nat
      /\ Len(tokens) <= MaxTokens
  BY DEF TypeInv, RowsTyped
<1>2. Absent \in Version
  BY DEF Version
<1> QED
  BY <1>1, <1>2, SessionsAssumption DEF Sent, Calls, Kept, Idle, Refreshes, Guarded, Places

\* The answer to a request.
LEMMA AnswerKept ==
  ASSUME CallsKept, NEW t \in Tabs, NEW s \in Slots, Call(t, s) # Idle,
         NEW reply \in Replies, Answer(t, s, reply),
         Len(tokens) \in Nat, Len(tokens') \in Nat, Len(tokens) <= Len(tokens'),
         reply.token \in 0..Len(tokens')
  PROVE  CallsKept'
<1> DEFINE c == [Call(t, s) EXCEPT !.pc = "answered", !.reply = reply,
                   !.token = 0, !.access = Absent, !.version = Absent]
<1>1. Call(t, s) \in Calls /\ Kept(Call(t, s), s, Len(tokens))
  BY DEF CallsKept, Call
<1>2. c \in Calls /\ c.op = Call(t, s).op /\ c.pc = "answered" /\ c.token = 0 /\ c.reply = reply
  <2>1. 0 \in 0..MaxTokens /\ Absent \in Version /\ "answered" \in Places
    BY SessionsAssumption DEF Version, Places
  <2> HIDE DEF Call
  <2> QED
    BY <1>1, <2>1 DEF Calls
<1>3. Kept(c, s, Len(tokens'))
  BY <1>1, <1>2 DEF Kept, Calls
<1>4. Put(t, s, c)
  BY DEF Answer
<1> HIDE DEF c
<1> QED
  BY <1>2, <1>3, <1>4, PutKept

LEMMA RefusedIsReply == Refused \in Replies /\ Refused.token = 0
BY SessionsAssumption DEF Refused, Replies, Version

LEMMA RefuseKept ==
  ASSUME CallsKept, NEW t \in Tabs, NEW s \in Slots, Call(t, s) # Idle,
         Answer(t, s, Refused), Len(tokens) \in Nat, UNCHANGED tokens
  PROVE  CallsKept'
<1>1. Refused \in Replies /\ Refused.token \in 0..Len(tokens')
  BY RefusedIsReply
<1> QED
  BY <1>1, AnswerKept

LEMMA GrantedIsReply ==
  ASSUME NEW k \in 0..MaxTokens, NEW v \in Version
  PROVE  Granted(k, v) \in Replies /\ Granted(k, v).token = k
BY DEF Granted, Replies

\* The handler of a request goes on with what it held.
LEMMA StepKept ==
  ASSUME CallsKept, NEW t \in Tabs, NEW s \in Slots, Call(t, s) # Idle,
         NEW pc \in {"replayed", "familyRevoked", "unauthorized", "waiting"}, Step(t, s, pc),
         pc \in {"replayed", "familyRevoked"} =>
           Call(t, s).op \in Refreshes /\ Call(t, s).token # 0,
         Len(tokens) \in Nat, Len(tokens') = Len(tokens)
  PROVE  CallsKept'
<1> DEFINE c == [Call(t, s) EXCEPT !.pc = pc]
<1>1. Call(t, s) \in Calls /\ Kept(Call(t, s), s, Len(tokens))
  BY DEF CallsKept, Call
<1>2. c \in Calls /\ c.op = Call(t, s).op /\ c.pc = pc /\ c.token = Call(t, s).token
  BY <1>1 DEF Calls, Places
<1>3. Kept(c, s, Len(tokens'))
  BY <1>1, <1>2 DEF Kept
<1>4. Put(t, s, c)
  BY DEF Step
<1> HIDE DEF c
<1> QED
  BY <1>2, <1>3, <1>4, PutKept

\* Revoking tokens changes nothing else about them.
LEMMA RevokedTyped ==
  ASSUME RowsTyped, NEW ids
  PROVE  /\ Revoked(ids) \in Seq(TokenRows) /\ Len(Revoked(ids)) = Len(tokens)
         /\ DOMAIN Revoked(ids) = DOMAIN tokens
         /\ \A k \in DOMAIN tokens :
              /\ Revoked(ids)[k].family = tokens[k].family
              /\ Revoked(ids)[k].parent = tokens[k].parent
              /\ Revoked(ids)[k].revoked <=> (k \in ids \/ tokens[k].revoked)
<1>1. /\ DOMAIN tokens = 1..Len(tokens) /\ Len(tokens) \in Nat
      /\ \A k \in DOMAIN tokens : tokens[k] \in TokenRows
  BY DEF RowsTyped
<1>2. \A k \in DOMAIN tokens : [tokens[k] EXCEPT !.revoked = TRUE] \in TokenRows
  BY <1>1 DEF TokenRows
<1>3. Revoked(ids) \in [1..Len(tokens) -> TokenRows]
  BY <1>1, <1>2 DEF Revoked
<1>4. Revoked(ids) \in Seq(TokenRows) /\ Len(Revoked(ids)) = Len(tokens)
  BY <1>1, <1>3
<1> QED
  BY <1>1, <1>2, <1>4 DEF Revoked, TokenRows

-----------------------------------------------------------------------------
(* Every action keeps the types. *)

LEMMA FindTokenTypes ==
  ASSUME TypeInv, NEW t \in Tabs, NEW s \in Slots, FindToken(t, s)
  PROVE  TypeInv'
<1> DEFINE c == Call(t, s)
           found == [c EXCEPT !.pc = "found", !.version = user.tv]
<1>1. c # Idle /\ c \in Calls /\ c.op \in Refreshes /\ Kept(c, s, Len(tokens)) /\ CallsKept
  BY AtRefresh DEF FindToken
<1>2. UNCHANGED <<tokens, user, changed, cache, jar, tab, clock>> /\ Len(tokens) \in Nat
  BY DEF FindToken, server, TypeInv, RowsTyped
<1>3. RowsTyped'
  BY <1>2 DEF TypeInv, RowsTyped, Version
<1>4. ASSUME Answer(t, s, Refused) PROVE CallsKept'
  BY <1>1, <1>2, <1>4, RefuseKept
<1>5. ASSUME Step(t, s, "replayed"), c.token # 0 PROVE CallsKept'
  BY <1>1, <1>2, <1>5, StepKept
<1>6. ASSUME Put(t, s, found), c.token # 0 PROVE CallsKept'
  <2>1. user.tv \in Version /\ "found" \in Places
    BY DEF TypeInv, RowsTyped, Version, Places
  <2> HIDE DEF c
  <2>2. found \in Calls /\ found.op = c.op /\ found.pc = "found" /\ found.token = c.token
    BY <1>1, <2>1 DEF Calls
  <2>3. Kept(found, s, Len(tokens'))
    BY <1>1, <1>2, <1>6, <2>2 DEF Kept, Guarded, Refreshes
  <2> HIDE DEF found
  <2> QED
    BY <1>1, <1>2, <1>6, <2>2, <2>3, PutKept
<1>7. \/ Answer(t, s, Refused)
      \/ Step(t, s, "replayed") /\ c.token # 0
      \/ Put(t, s, found) /\ c.token # 0
  BY DEF FindToken
<1> HIDE DEF c, found
<1> QED
  BY <1>3, <1>4, <1>5, <1>6, <1>7 DEF TypeInv

LEMMA RevokeFamilyTypes ==
  ASSUME TypeInv, NEW t \in Tabs, NEW s \in Slots, RevokeFamily(t, s)
  PROVE  TypeInv'
<1>1. /\ Call(t, s) # Idle /\ Call(t, s).op \in Refreshes /\ Call(t, s).token # 0 /\ CallsKept
      /\ Step(t, s, "familyRevoked")
  BY AtRefresh DEF RevokeFamily
<1>2. PICK ids : tokens' = Revoked(ids)
  BY DEF RevokeFamily
<1>3. tokens' \in Seq(TokenRows) /\ Len(tokens') = Len(tokens) /\ Len(tokens) \in Nat
  BY <1>2, RevokedTyped DEF TypeInv, RowsTyped
<1>4. RowsTyped'
  BY <1>3 DEF RevokeFamily, TypeInv, RowsTyped, Version
<1> QED
  BY <1>1, <1>3, <1>4, StepKept DEF TypeInv

LEMMA BumpVersionTypes ==
  ASSUME TypeInv, NEW t \in Tabs, NEW s \in Slots, BumpVersion(t, s)
  PROVE  TypeInv'
<1>1. Call(t, s) # Idle /\ CallsKept /\ Len(tokens) \in Nat
  BY AtRefresh DEF BumpVersion
<1>2. RowsTyped'
  BY SessionsAssumption, SMTT(60) DEF BumpVersion, TypeInv, RowsTyped, Version
<1>3. Answer(t, s, Refused) /\ UNCHANGED tokens
  BY DEF BumpVersion
<1> QED
  BY <1>1, <1>2, <1>3, RefuseKept DEF TypeInv

\* A new token, at the end.
LEMMA AppendTyped ==
  ASSUME NEW rows \in Seq(TokenRows), Len(rows) < MaxTokens,
         NEW family \in 1..MaxTokens, NEW parent \in 0..MaxTokens
  PROVE  LET longer == Append(rows, NewToken(family, parent))
         IN  /\ longer \in Seq(TokenRows) /\ Len(longer) = Len(rows) + 1
             /\ DOMAIN rows = 1..Len(rows) /\ DOMAIN longer = 1..Len(rows) + 1
             /\ \A k \in 1..Len(rows) : longer[k] = rows[k]
             /\ longer[Len(rows) + 1] = NewToken(family, parent)
<1>1. NewToken(family, parent) \in TokenRows
  BY DEF NewToken, TokenRows
<1> QED
  BY <1>1

LEMMA RotateTypes ==
  ASSUME TypeInv, NEW t \in Tabs, NEW s \in Slots, Rotate(t, s)
  PROVE  TypeInv'
<1> DEFINE c == Call(t, s)
           new == Len(tokens) + 1
<1>1. /\ c # Idle /\ c \in Calls /\ c.token # 0 /\ c.token \in 0..Len(tokens) /\ CallsKept
      /\ Len(tokens) \in Nat /\ Len(tokens) <= MaxTokens
  BY AtRefresh DEF Rotate
<1>2. UNCHANGED <<user, cache, jar, tab, changed, clock>>
  BY DEF Rotate
<1>3. CASE Rotatable(c.token)
  <2>1. /\ tokens' = Append(Revoked({c.token}), NewToken(tokens[c.token].family, c.token))
        /\ new <= MaxTokens
        /\ Answer(t, s, Granted(new, c.version))
    BY <1>3 DEF Rotate
  <2>2. tokens[c.token].family \in 1..MaxTokens /\ c.token \in 0..MaxTokens
    <3>1. c.token \in DOMAIN tokens /\ tokens \in Seq(TokenRows)
      BY <1>1 DEF TypeInv, RowsTyped
    <3>2. tokens[c.token] \in TokenRows
      BY <3>1
    <3> QED
      BY <1>1, <3>2, SessionsAssumption DEF TokenRows
  <2>3. Revoked({c.token}) \in Seq(TokenRows) /\ Len(Revoked({c.token})) = Len(tokens)
    BY RevokedTyped DEF TypeInv
  <2>4. tokens' \in Seq(TokenRows) /\ Len(tokens') = new
    <3>1. Len(Revoked({c.token})) < MaxTokens
      BY <1>1, <2>1, <2>3, SessionsAssumption
    <3> HIDE DEF c
    <3> QED
      BY <1>1, <2>1, <2>2, <2>3, <3>1, AppendTyped
  <2>5. RowsTyped'
    BY <1>1, <1>2, <2>1, <2>4 DEF TypeInv, RowsTyped, Version
  <2>6. c.version \in Version /\ new \in 0..MaxTokens
    BY <1>1, <2>1 DEF Calls
  <2>7. Granted(new, c.version) \in Replies /\ Granted(new, c.version).token = new
    BY <2>6, GrantedIsReply
  <2>8. Len(tokens') \in Nat /\ Len(tokens) <= Len(tokens') /\ new \in 0..Len(tokens')
    BY <1>1, <2>4
  <2>9. CallsKept'
    BY <1>1, <2>1, <2>7, <2>8, AnswerKept
  <2> QED
    BY <2>5, <2>9 DEF TypeInv
<1>4. CASE ~ Rotatable(c.token)
  <2>1. UNCHANGED tokens /\ Answer(t, s, Refused)
    BY <1>4 DEF Rotate
  <2>2. RowsTyped'
    BY <1>2, <2>1 DEF TypeInv, RowsTyped, Version
  <2> QED
    BY <1>1, <2>1, <2>2, RefuseKept DEF TypeInv
<1> QED
  BY <1>3, <1>4

LEMMA LoginCompareTypes ==
  ASSUME TypeInv, NEW t \in Tabs, LoginCompare(t)
  PROVE  TypeInv'
<1> DEFINE c == Call(t, "main")
           passed == [c EXCEPT !.pc = "passed", !.version = user.tv]
<1>1. "main" \in Slots /\ CallsKept /\ Len(tokens) \in Nat
  BY DEF Slots, TypeInv, RowsTyped
<1>2. c # Idle /\ c \in Calls /\ c.op = "login" /\ Kept(c, "main", Len(tokens))
  BY <1>1, AtWork DEF LoginCompare
<1>3. RowsTyped' /\ UNCHANGED tokens
  BY DEF LoginCompare, server, TypeInv, RowsTyped, Version
<1>4. ASSUME Answer(t, "main", Refused) PROVE CallsKept'
  BY <1>1, <1>2, <1>3, <1>4, RefuseKept
<1>5. ASSUME Put(t, "main", passed) PROVE CallsKept'
  <2>1. user.tv \in Version /\ "passed" \in Places
    BY DEF TypeInv, RowsTyped, Version, Places
  <2> HIDE DEF c
  <2>2. passed \in Calls /\ passed.op = c.op /\ passed.pc = "passed" /\ passed.token = c.token
    BY <1>2, <2>1 DEF Calls
  <2>3. Kept(passed, "main", Len(tokens'))
    BY <1>1, <1>2, <1>3, <2>2 DEF Kept
  <2> HIDE DEF passed
  <2> QED
    BY <1>1, <1>3, <1>5, <2>2, <2>3, PutKept
<1>6. Answer(t, "main", Refused) \/ Put(t, "main", passed)
  BY DEF LoginCompare
<1> HIDE DEF c, passed
<1> QED
  BY <1>3, <1>4, <1>5, <1>6 DEF TypeInv

LEMMA IssueSessionTypes ==
  ASSUME TypeInv, NEW t \in Tabs, IssueSession(t)
  PROVE  TypeInv'
<1> DEFINE c == Call(t, "main")
           new == Len(tokens) + 1
<1>1. "main" \in Slots /\ CallsKept /\ Len(tokens) \in Nat /\ Len(tokens) <= MaxTokens
  BY DEF Slots, TypeInv, RowsTyped
<1>2. c # Idle /\ c \in Calls
  BY <1>1, AtWork DEF IssueSession
<1>3. /\ tokens' = Append(tokens, NewToken(new, 0)) /\ new <= MaxTokens
      /\ Answer(t, "main", Granted(new, c.version))
      /\ UNCHANGED <<user, cache, jar, tab, changed, clock>>
  BY DEF IssueSession
<1>4. tokens' \in Seq(TokenRows) /\ Len(tokens') = new
  <2>1. tokens \in Seq(TokenRows) /\ new \in 1..MaxTokens /\ 0 \in 0..MaxTokens /\ Len(tokens) < MaxTokens
    BY <1>1, <1>3, SessionsAssumption DEF TypeInv, RowsTyped
  <2> QED
    BY <1>3, <2>1, AppendTyped
<1>5. RowsTyped'
  BY <1>1, <1>3, <1>4 DEF TypeInv, RowsTyped, Version
<1>6. c.version \in Version /\ new \in 0..MaxTokens
  BY <1>1, <1>2, <1>3 DEF Calls
<1>7. Granted(new, c.version) \in Replies /\ Granted(new, c.version).token = new
  BY <1>6, GrantedIsReply
<1>8. Len(tokens') \in Nat /\ Len(tokens) <= Len(tokens') /\ new \in 0..Len(tokens')
  BY <1>1, <1>4
<1>9. CallsKept'
  BY <1>1, <1>2, <1>3, <1>7, <1>8, AnswerKept
<1> QED
  BY <1>5, <1>9 DEF TypeInv

-----------------------------------------------------------------------------
\* A request behind the guard.
LEMMA AtGuard ==
  ASSUME TypeInv, NEW t \in Tabs, NEW pc, NEW ops \in SUBSET Guarded, At(t, "main", ops, pc)
  PROVE  /\ "main" \in Slots
         /\ Call(t, "main") # Idle /\ Call(t, "main") \in Calls /\ Call(t, "main").op \in Guarded
         /\ Kept(Call(t, "main"), "main", Len(tokens)) /\ Call(t, "main").pc = pc
         /\ CallsKept /\ Len(tokens) \in Nat /\ Len(tokens) <= MaxTokens
<1>1. "idle" \notin ops /\ "main" \in Slots
  BY DEF Guarded, Slots
<1>2. CallsKept /\ Len(tokens) \in Nat /\ Len(tokens) <= MaxTokens
  BY DEF TypeInv, RowsTyped
<1> QED
  BY <1>1, <1>2, AtWork

LEMMA AdmitKept ==
  ASSUME TypeInv, NEW t \in Tabs, Call(t, "main") # Idle, NEW row, Admit(t, row),
         UNCHANGED tokens
  PROVE  CallsKept'
<1>1. PICK to \in {"admitted", "unauthorized"} :
        Put(t, "main", [Call(t, "main") EXCEPT !.pc = to, !.row = Absent, !.access = Absent])
  BY DEF Admit
<1> DEFINE c == Call(t, "main")
           d == [c EXCEPT !.pc = to, !.row = Absent, !.access = Absent]
<1>2. "main" \in Slots /\ CallsKept /\ Len(tokens) \in Nat
  BY DEF Slots, TypeInv, RowsTyped
<1>3. c \in Calls /\ Kept(c, "main", Len(tokens))
  BY <1>2 DEF CallsKept, Call
<1>4. Absent \in Version /\ to \in Places
  BY DEF Version, Places
<1> HIDE DEF c
<1>5. d \in Calls /\ d.op = c.op /\ d.pc = to /\ d.token = c.token
  BY <1>3, <1>4 DEF Calls
<1>6. Kept(d, "main", Len(tokens'))
  BY <1>2, <1>3, <1>5 DEF Kept, Idle, c
<1>7. Put(t, "main", d)
  BY <1>1 DEF c
<1> HIDE DEF d
<1> QED
  BY <1>2, <1>5, <1>6, <1>7, PutKept

LEMMA GuardTypes ==
  ASSUME TypeInv, NEW t \in Tabs,
         NoAccessToken(t) \/ GuardHit(t) \/ GuardRead(t) \/ GuardStore(t)
  PROVE  TypeInv'
<1>1. PICK pc \in {"sent", "reading"} : At(t, "main", Guarded, pc)
  BY DEF NoAccessToken, GuardHit, GuardRead, GuardStore
<1>2. /\ "main" \in Slots /\ Call(t, "main") # Idle /\ Call(t, "main") \in Calls
      /\ Call(t, "main").op \in Guarded /\ Call(t, "main").pc = pc
      /\ Kept(Call(t, "main"), "main", Len(tokens)) /\ CallsKept /\ Len(tokens) \in Nat
  BY <1>1, AtGuard
<1>3. UNCHANGED <<tokens, user, changed, jar, tab, clock>>
  BY DEF NoAccessToken, GuardHit, GuardRead, GuardStore, server
<1>4. CASE NoAccessToken(t)
  <2>1. Step(t, "main", "unauthorized") /\ UNCHANGED cache
    BY <1>4 DEF NoAccessToken, Unauthorized
  <2>2. RowsTyped'
    BY <1>3, <2>1 DEF TypeInv, RowsTyped, Version
  <2> QED
    BY <1>2, <1>3, <2>1, <2>2, StepKept DEF TypeInv
<1>5. CASE GuardHit(t)
  <2>1. Admit(t, cache) /\ UNCHANGED cache
    BY <1>5 DEF GuardHit, AfterHit
  <2>2. RowsTyped'
    BY <1>3, <2>1 DEF TypeInv, RowsTyped, Version
  <2> QED
    BY <1>2, <1>3, <2>1, <2>2, AdmitKept DEF TypeInv
<1>6. CASE GuardRead(t)
  <2> DEFINE c == Call(t, "main")
             r == [tv |-> user.tv, active |-> user.active, at |-> clock]
             d == [c EXCEPT !.pc = "reading", !.row = r]
  <2>1. Put(t, "main", d) /\ UNCHANGED cache
    BY <1>6 DEF GuardRead
  <2>2. RowsTyped'
    BY <1>3, <2>1 DEF TypeInv, RowsTyped, Version
  <2>3. r \in UserRows /\ "reading" \in Places
    BY DEF TypeInv, RowsTyped, UserRows, Places
  <2> HIDE DEF c, r
  <2>4. d \in Calls /\ d.op = c.op /\ d.pc = "reading" /\ d.token = c.token /\ d.row = r
    BY <1>2, <2>3 DEF Calls, c
  <2>5. Kept(d, "main", Len(tokens'))
    BY <1>2, <1>3, <2>3, <2>4 DEF Kept, c
  <2> HIDE DEF d
  <2>6. CallsKept'
    BY <1>2, <1>3, <2>1, <2>4, <2>5, PutKept
  <2> QED
    BY <2>2, <2>6 DEF TypeInv
<1>7. CASE GuardStore(t)
  <2>1. At(t, "main", Guarded, "reading")
    BY <1>7 DEF GuardStore
  <2>2. Call(t, "main").row \in UserRows
    BY <2>1, AtGuard DEF Kept
  <2>3. cache' \in [tv : 0..MaxChanges, active : BOOLEAN, until : Nat, took : Int]
    BY <1>7, <2>2, SessionsAssumption DEF GuardStore, UserRows, TypeInv, RowsTyped
  <2>4. RowsTyped'
    BY <1>3, <2>3 DEF TypeInv, RowsTyped, Version
  <2>5. Admit(t, Call(t, "main").row)
    BY <1>7 DEF GuardStore
  <2> QED
    BY <1>2, <1>3, <2>4, <2>5, AdmitKept DEF TypeInv
<1> QED
  BY <1>4, <1>5, <1>6, <1>7

LEMMA ServeTypes ==
  ASSUME TypeInv, NEW t \in Tabs, ServeApi(t) \/ ServeLogout(t) \/ ServePassword(t)
  PROVE  TypeInv'
<1>1. PICK ops \in SUBSET Guarded : At(t, "main", ops, "admitted")
  BY DEF ServeApi, ServeLogout, ServePassword, Guarded
<1>2. /\ "main" \in Slots /\ Call(t, "main") # Idle /\ CallsKept
      /\ Len(tokens) \in Nat /\ Len(tokens) <= MaxTokens
  BY <1>1, AtGuard
<1>3. /\ Answer(t, "main", Granted(0, Absent))
      /\ tokens' \in {tokens, Revoked(DOMAIN tokens)}
      /\ UNCHANGED <<cache, jar, tab, clock>>
      /\ \/ UNCHANGED <<user, changed>>
         \/ user.tv < MaxChanges /\ user' = [user EXCEPT !.tv = @ + 1] /\ changed' = clock
  BY DEF ServeApi, ServeLogout, ServePassword, server
<1>4. tokens' \in Seq(TokenRows) /\ Len(tokens') = Len(tokens)
  BY <1>3, RevokedTyped DEF TypeInv, RowsTyped
<1>5. RowsTyped'
  <2>1. /\ user' \in [tv : 0..MaxChanges, active : BOOLEAN]
        /\ changed' \in 0..LastTick \union {Absent}
    BY <1>3, SessionsAssumption DEF TypeInv, RowsTyped
  <2>2. jar' \in [refresh : 0..Len(tokens'), access : Version] /\ Len(tokens') <= MaxTokens
    BY <1>3, <1>4 DEF TypeInv, RowsTyped
  <2> QED
    BY <1>3, <1>4, <2>1, <2>2 DEF TypeInv, RowsTyped
<1>6. Granted(0, Absent) \in Replies /\ Granted(0, Absent).token \in 0..Len(tokens')
  <2>1. 0 \in 0..MaxTokens /\ Absent \in Version /\ 0 \in 0..Len(tokens')
    BY <1>2, <1>4, SessionsAssumption DEF Version
  <2> QED
    BY <2>1, GrantedIsReply
<1> QED
  BY <1>2, <1>3, <1>4, <1>5, <1>6, AnswerKept DEF TypeInv

-----------------------------------------------------------------------------
\* A tab's request begins.
LEMMA StartKept ==
  ASSUME TypeInv, NEW t \in Tabs, NEW s \in Slots,
         NEW op \in Refreshes \union Guarded \union {"login"},
         op \in Guarded \union {"login"} => s = "main",
         Put(t, s, Sent(op)), UNCHANGED tokens
  PROVE  CallsKept'
<1>1. CallsKept /\ Len(tokens) \in Nat
  BY DEF TypeInv, RowsTyped
<1>2. Sent(op) \in Calls /\ Kept(Sent(op), s, Len(tokens))
  BY SentKept
<1> QED
  BY <1>1, <1>2, PutKept

LEMMA EndKept ==
  ASSUME CallsKept, NEW t \in Tabs, NEW s \in Slots, Put(t, s, Idle),
         UNCHANGED tokens, Len(tokens) \in Nat
  PROVE  CallsKept'
<1>1. Kept(Idle, s, Len(tokens'))
  BY DEF Kept
<1> QED
  BY <1>1, PutKept

\* A tab changes its state, and the cookies their content.
LEMMA TabTyped ==
  ASSUME RowsTyped, NEW t \in Tabs,
         NEW state \in {"closed", "loading", "signedIn", "signedOut"},
         SetTab(t, state) \/ UNCHANGED tab
  PROVE  tab' \in [Tabs -> [state : {"closed", "loading", "signedIn", "signedOut"},
                            attempt : 0..Attempts]]
BY SessionsAssumption, SMTT(30) DEF RowsTyped, SetTab

LEMMA BeginTypes ==
  ASSUME TypeInv, NEW t \in Tabs, Begin(t)
  PROVE  TypeInv'
<1>1. UNCHANGED <<tokens, user, changed, cache, jar, clock>>
  BY DEF Begin, Open, SubmitLogin, SilentRefresh, Use, server
<1>2. PICK s \in Slots, op \in Refreshes \union Guarded \union {"login"} :
        (op \in Guarded \union {"login"} => s = "main") /\ Put(t, s, Sent(op))
  BY DEF Begin, Open, SubmitLogin, SilentRefresh, Use, Start, Slots, Refreshes, Guarded
<1>3. CallsKept'
  BY <1>1, <1>2, StartKept
<1>4. tab' \in {tab, [tab EXCEPT ![t] = [state |-> "loading", attempt |-> 1]]}
  BY DEF Begin, Open, SubmitLogin, SilentRefresh, Use
<1>5. tab' \in [Tabs -> [state : {"closed", "loading", "signedIn", "signedOut"},
                         attempt : 0..Attempts]]
  BY <1>4, SessionsAssumption DEF TypeInv, RowsTyped
<1>6. RowsTyped'
  BY <1>1, <1>5 DEF TypeInv, RowsTyped, Version
<1> QED
  BY <1>3, <1>6 DEF TypeInv

LEMMA JoinFlightTypes ==
  ASSUME TypeInv, NEW t \in Tabs, JoinFlight(t)
  PROVE  TypeInv'
<1> DEFINE c == Call(t, "main")
           d == [c EXCEPT !.pc = "waiting"]
           f == IF call[t]["flight"] = Idle THEN Sent("flight") ELSE call[t]["flight"]
<1>1. /\ "main" \in Slots /\ c # Idle /\ c \in Calls /\ c.op \in Guarded
      /\ Kept(c, "main", Len(tokens)) /\ CallsKept /\ Len(tokens) \in Nat
  BY AtGuard DEF JoinFlight
<1>2. UNCHANGED <<tokens, user, changed, cache, jar, tab, clock>>
  BY DEF JoinFlight, server
<1>3. RowsTyped'
  BY <1>2 DEF TypeInv, RowsTyped, Version
<1>4. "flight" \in Slots /\ "waiting" \in Places /\ "flight" \in Refreshes
  BY DEF Slots, Places, Refreshes
<1>5. d \in Calls /\ d.op = c.op /\ d.pc = "waiting" /\ d.token = c.token
  <2> HIDE DEF c
  <2> QED
    BY <1>1, <1>4 DEF Calls
<1>6. Kept(d, "main", Len(tokens))
  BY <1>1, <1>5 DEF Kept
<1>7. f \in Calls \union {Idle} /\ Kept(f, "flight", Len(tokens))
  <2>1. Sent("flight") \in Calls /\ Kept(Sent("flight"), "flight", Len(tokens))
    BY <1>4, SentKept DEF Guarded
  <2>2. call[t]["flight"] \in Calls \union {Idle} /\ Kept(call[t]["flight"], "flight", Len(tokens))
    BY <1>1, <1>4 DEF CallsKept
  <2> QED
    BY <2>1, <2>2
<1>8. call' = [call EXCEPT ![t] = [call[t] EXCEPT !["main"] = d, !["flight"] = f]]
  BY <1>1, <1>4 DEF JoinFlight, CallsKept, Call
<1> HIDE DEF c, d, f
<1>9. call' \in [Tabs -> [Slots -> Calls \union {Idle}]]
  BY <1>1, <1>4, <1>5, <1>7, <1>8 DEF CallsKept
<1>10. ASSUME NEW u \in Tabs, NEW s \in Slots
       PROVE  Kept(call'[u][s], s, Len(tokens))
  <2>1. Kept(call[u][s], s, Len(tokens))
    BY <1>1 DEF CallsKept
  <2>2. call'[u][s] = IF u = t /\ s = "main" THEN d
                      ELSE IF u = t /\ s = "flight" THEN f ELSE call[u][s]
    BY <1>1, <1>4, <1>8 DEF CallsKept, Slots
  <2> QED
    BY <1>6, <1>7, <2>1, <2>2
<1> QED
  BY <1>2, <1>3, <1>9, <1>10 DEF TypeInv, CallsKept

\* The end of a shared refresh: the request that waited goes on.
LEMMA EndFlightKept ==
  ASSUME TypeInv, NEW t \in Tabs, NEW granted \in BOOLEAN,
         NEW cookies, cookies.access \in Version,
         EndFlight(t, granted, cookies), UNCHANGED tokens
  PROVE  CallsKept'
<1> DEFINE c == Call(t, "main")
           again == [Sent(c.op) EXCEPT !.retried = TRUE, !.access = cookies.access]
           failed == [c EXCEPT !.pc = "unauthorized", !.retried = TRUE]
           d == CASE c = Idle -> c
                  [] c # Idle /\ c.pc # "waiting" -> c
                  [] c # Idle /\ c.pc = "waiting" /\ granted -> again
                  [] OTHER -> failed
<1>1. CallsKept /\ Len(tokens) \in Nat /\ "main" \in Slots /\ "flight" \in Slots
  BY DEF TypeInv, RowsTyped, Slots
<1>2. c \in Calls \union {Idle} /\ Kept(c, "main", Len(tokens))
  BY <1>1 DEF CallsKept, Call
<1>3. ASSUME c # Idle
      PROVE  /\ again \in Calls /\ Kept(again, "main", Len(tokens))
             /\ failed \in Calls /\ Kept(failed, "main", Len(tokens))
  <2>1. c \in Calls /\ c.op \in Refreshes \union Guarded \union {"login"}
    BY <1>2, <1>3 DEF Calls
  <2>2. Sent(c.op) \in Calls /\ Kept(Sent(c.op), "main", Len(tokens)) /\ Sent(c.op) # Idle
        /\ Sent(c.op).op = c.op /\ Sent(c.op).pc = "sent"
    BY <2>1, <1>1, SentKept DEF Sent
  <2>3. again \in Calls /\ again.op = c.op /\ again.pc = "sent" /\ again.token = Sent(c.op).token
    <3> HIDE DEF c
    <3> QED
      BY <2>2 DEF Calls
  <2>4. failed \in Calls /\ failed.op = c.op /\ failed.pc = "unauthorized" /\ failed.token = c.token
    <3>1. "unauthorized" \in Places
      BY DEF Places
    <3> HIDE DEF c
    <3> QED
      BY <2>1, <3>1 DEF Calls
  <2>5. Kept(again, "main", Len(tokens))
    BY <2>2, <2>3 DEF Kept
  <2>6. Kept(failed, "main", Len(tokens))
    BY <1>2, <1>3, <2>4 DEF Kept
  <2> QED
    BY <2>3, <2>4, <2>5, <2>6
<1>4. call' = [call EXCEPT ![t] = [call[t] EXCEPT !["flight"] = Idle, !["main"] = d]]
  BY <1>1 DEF EndFlight, CallsKept, Call
<1> HIDE DEF again, failed
<1>5. d \in Calls \union {Idle} /\ Kept(d, "main", Len(tokens))
  BY <1>2, <1>3
<1> HIDE DEF c, d
<1>6. call' \in [Tabs -> [Slots -> Calls \union {Idle}]]
  BY <1>1, <1>4, <1>5 DEF CallsKept
<1>7. ASSUME NEW u \in Tabs, NEW s \in Slots
      PROVE  Kept(call'[u][s], s, Len(tokens))
  <2>1. Kept(call[u][s], s, Len(tokens)) /\ Kept(Idle, s, Len(tokens))
    BY <1>1 DEF CallsKept, Kept
  <2>2. call'[u][s] = IF u = t /\ s = "main" THEN d
                      ELSE IF u = t /\ s = "flight" THEN Idle ELSE call[u][s]
    BY <1>1, <1>4 DEF CallsKept, Slots
  <2> QED
    BY <1>5, <2>1, <2>2
<1> QED
  BY <1>6, <1>7 DEF CallsKept

LEMMA DeliverSessionTypes ==
  ASSUME TypeInv, NEW t \in Tabs, NEW s \in Slots, DeliverSession(t, s)
  PROVE  TypeInv'
<1> DEFINE c == Call(t, s)
<1>1. CallsKept /\ Len(tokens) \in Nat
  BY DEF TypeInv, RowsTyped
<1>2. c # Idle /\ c \in Calls /\ c.pc = "answered" /\ Kept(c, s, Len(tokens))
  <2>1. "idle" \notin Refreshes \union {"login"}
    BY DEF Refreshes
  <2> QED
    BY <1>1, <2>1, AtWork DEF DeliverSession
<1>3. c.reply \in Replies /\ c.reply.token \in 0..Len(tokens) /\ c.reply.ok \in BOOLEAN
      /\ c.reply.access \in Version
  BY <1>2 DEF Kept, Replies
<1>4. UNCHANGED <<tokens, user, changed, cache, clock>>
  BY DEF DeliverSession, server
<1>5. jar' \in [refresh : 0..Len(tokens), access : Version]
  BY <1>3 DEF DeliverSession, CookiesOf, TypeInv, RowsTyped
<1>6. tab' \in [Tabs -> [state : {"closed", "loading", "signedIn", "signedOut"},
                         attempt : 0..Attempts]]
  <2>1. UNCHANGED tab \/ SetTab(t, "signedIn") \/ SetTab(t, "signedOut")
    BY DEF DeliverSession, AfterRefresh
  <2> QED
    BY <2>1, TabTyped DEF TypeInv
<1>7. RowsTyped'
  BY <1>4, <1>5, <1>6 DEF TypeInv, RowsTyped, Version
<1>8. CallsKept'
  <2>1. CASE EndFlight(t, c.reply.ok, CookiesOf(c.reply))
    <3>1. CookiesOf(c.reply).access \in Version
      BY <1>3 DEF CookiesOf
    <3> QED
      BY <1>3, <1>4, <2>1, <3>1, EndFlightKept
  <2>2. CASE Put(t, s, Idle)
    BY <1>1, <1>4, <2>2, EndKept
  <2> QED
    BY <2>1, <2>2 DEF DeliverSession
<1> QED
  BY <1>7, <1>8 DEF TypeInv

LEMMA DeliverTypes ==
  ASSUME TypeInv, NEW t \in Tabs, Deliver(t) \/ GiveUp(t)
  PROVE  TypeInv'
<1>1. CallsKept /\ Len(tokens) \in Nat /\ "main" \in Slots
  BY DEF TypeInv, RowsTyped, Slots
<1>2. UNCHANGED <<tokens, user, changed, cache, clock>> /\ Put(t, "main", Idle)
  BY DEF Deliver, GiveUp, server
<1>3. jar' \in [refresh : 0..Len(tokens), access : Version]
  BY <1>1 DEF Deliver, GiveUp, TypeInv, RowsTyped, Version
<1>4. tab' \in [Tabs -> [state : {"closed", "loading", "signedIn", "signedOut"},
                         attempt : 0..Attempts]]
  BY TabTyped DEF Deliver, GiveUp, TypeInv
<1>5. RowsTyped'
  BY <1>2, <1>3, <1>4 DEF TypeInv, RowsTyped, Version
<1> QED
  BY <1>1, <1>2, <1>5, EndKept DEF TypeInv

LEMMA LoseTypes ==
  ASSUME TypeInv, NEW t \in Tabs, NEW s \in Slots, Lose(t, s)
  PROVE  TypeInv'
<1>1. CallsKept /\ Len(tokens) \in Nat /\ jar.access \in Version
  BY DEF TypeInv, RowsTyped
<1>2. UNCHANGED <<tokens, user, changed, cache, jar, clock>>
  BY DEF Lose
<1>3. Call(t, s) # Idle /\ Call(t, s) \in Calls /\ Kept(Call(t, s), s, Len(tokens))
  BY <1>1 DEF Lose, CallsKept, Call
<1>4. tab' \in [Tabs -> [state : {"closed", "loading", "signedIn", "signedOut"},
                         attempt : 0..Attempts]]
  <2>1. \/ UNCHANGED tab \/ SetTab(t, "signedOut")
        \/ TriesAgain(t) /\ tab' = [tab EXCEPT ![t].attempt = @ + 1]
    BY DEF Lose
  <2>2. ASSUME TriesAgain(t), tab' = [tab EXCEPT ![t].attempt = @ + 1]
        PROVE  tab' \in [Tabs -> [state : {"closed", "loading", "signedIn", "signedOut"},
                                  attempt : 0..Attempts]]
    <3> DEFINE r == [tab[t] EXCEPT !.attempt = @ + 1]
    <3>1. tab' = [tab EXCEPT ![t] = r]
      BY <2>2
    <3>2. tab[t].attempt + 1 \in 0..Attempts
      BY <2>2, SessionsAssumption DEF TriesAgain, TypeInv, RowsTyped
    <3>3. r \in [state : {"closed", "loading", "signedIn", "signedOut"}, attempt : 0..Attempts]
      BY <3>2 DEF TypeInv, RowsTyped
    <3> HIDE DEF r
    <3> QED
      BY <3>1, <3>3 DEF TypeInv, RowsTyped
  <2> QED
    BY <2>1, <2>2, TabTyped DEF TypeInv
<1>5. CallsKept'
  <2>1. CASE Put(t, s, Idle)
    BY <1>1, <1>2, <2>1, EndKept
  <2>2. CASE EndFlight(t, FALSE, jar)
    BY <1>1, <1>2, <2>2, EndFlightKept
  <2>3. CASE Call(t, s).op = "restore" /\ Put(t, s, Sent("restore"))
    <3>1. "restore" \in Refreshes /\ "restore" \notin Guarded \union {"login"}
      BY DEF Refreshes, Guarded
    <3> QED
      BY <1>2, <2>3, <3>1, StartKept
  <2> QED
    BY <2>1, <2>2, <2>3 DEF Lose
<1>6. RowsTyped'
  BY <1>2, <1>4 DEF TypeInv, RowsTyped, Version
<1> QED
  BY <1>5, <1>6 DEF TypeInv

LEMMA OtherTypes ==
  ASSUME TypeInv, (\E t \in Tabs : Reload(t)) \/ Deactivate \/ AccessExpires \/ ClockRuns
  PROVE  TypeInv'
<1>1. UNCHANGED tokens
  BY DEF Reload, Deactivate, AccessExpires, ClockRuns, server
<1>2. CallsKept'
  <2>1. CASE UNCHANGED call
    BY <1>1, <2>1 DEF TypeInv, CallsKept
  <2>2. ASSUME NEW t \in Tabs, call' = [call EXCEPT ![t] = [s \in Slots |-> Idle]]
        PROVE  CallsKept'
    BY <1>1, <2>2 DEF TypeInv, CallsKept, Kept
  <2> QED
    BY <2>1, <2>2 DEF Reload, Deactivate, AccessExpires, ClockRuns
<1>3. tab' \in [Tabs -> [state : {"closed", "loading", "signedIn", "signedOut"},
                         attempt : 0..Attempts]]
  BY TabTyped DEF Reload, Deactivate, AccessExpires, ClockRuns, TypeInv, RowsTyped
<1>4. RowsTyped'
  <2>1. CASE \E t \in Tabs : Reload(t)
    BY <1>1, <1>3, <2>1 DEF Reload, TypeInv, RowsTyped, Version
  <2>2. CASE Deactivate
    BY <1>1, <1>3, <2>2 DEF Deactivate, TypeInv, RowsTyped, Version
  <2>3. CASE AccessExpires
    BY <1>1, <1>3, <2>3 DEF AccessExpires, server, TypeInv, RowsTyped, Version
  <2>4. CASE ClockRuns
    BY <1>1, <1>3, <2>4, SessionsAssumption DEF ClockRuns, server, TypeInv, RowsTyped, Version
  <2> QED
    BY <2>1, <2>2, <2>3, <2>4
<1> QED
  BY <1>2, <1>4 DEF TypeInv

LEMMA NextTypes == TypeInv /\ [SessionsNext]_sessionsVars => TypeInv'
<1> SUFFICES ASSUME TypeInv, [SessionsNext]_sessionsVars PROVE TypeInv'
  OBVIOUS
<1>1. ASSUME NEW t \in Tabs, ServerStep(t) PROVE TypeInv'
  BY <1>1, FindTokenTypes, RevokeFamilyTypes, BumpVersionTypes, RotateTypes,
     LoginCompareTypes, IssueSessionTypes, GuardTypes, ServeTypes DEF ServerStep
<1>2. ASSUME NEW t \in Tabs, ClientStep(t) PROVE TypeInv'
  BY <1>2, DeliverSessionTypes, LoseTypes, JoinFlightTypes, DeliverTypes DEF ClientStep
<1>3. CASE UNCHANGED sessionsVars
  BY <1>3 DEF sessionsVars, TypeInv, RowsTyped, CallsKept, Version
<1> QED
  BY <1>1, <1>2, <1>3, BeginTypes, OtherTypes DEF SessionsNext

\* The rows of tokens and users, the cookies, the pages and the requests under
\* way keep their types, and no cookie or request names a token that does not
\* exist, whatever overlaps, is lost or is reloaded (AuthService, JwtAuthGuard,
\* AuthProvider).
THEOREM SessionsTypeCorrect == SessionsSpec => []SessionsTypeOK
<1>1. SessionsSpec => []TypeInv
  BY InitTypes, NextTypes, PTL DEF SessionsSpec
<1> QED
  BY <1>1, TypesFollow, PTL

-----------------------------------------------------------------------------
(* The line of tokens, as a property of the table. *)

IsLine(ts) ==
  /\ \A j, k \in DOMAIN ts :
       /\ ts[j].parent = ts[k].parent /\ ts[j].parent # 0 => j = k
       /\ ~ ts[j].revoked /\ ~ ts[k].revoked /\ ts[j].family = ts[k].family => j = k
  /\ \A k \in DOMAIN ts :
       ts[k].parent # 0 =>
         ts[ts[k].parent].revoked /\ ts[ts[k].parent].family = ts[k].family
  /\ \A k \in DOMAIN ts :
       ts[k].family \in 1..Len(ts) /\ ts[k].parent \in 0..Len(ts)

LineInv == IsLine(tokens)

LEMMA LineIsRotation == TypeInv /\ LineInv => RotationIsALine
BY DEF LineInv, IsLine, RotationIsALine, Live

\* Revoking breaks no line.
LEMMA RevokingKeepsLine ==
  ASSUME TypeInv, LineInv, NEW ids
  PROVE  IsLine(Revoked(ids))
<1> DEFINE ts == Revoked(ids)
<1>1. /\ DOMAIN ts = DOMAIN tokens /\ Len(ts) = Len(tokens)
      /\ \A k \in DOMAIN tokens : /\ ts[k].family = tokens[k].family
                                  /\ ts[k].parent = tokens[k].parent
                                  /\ tokens[k].revoked => ts[k].revoked
  BY RevokedTyped DEF TypeInv
<1>2. DOMAIN tokens = 1..Len(tokens) /\ Len(tokens) \in Nat
  BY DEF TypeInv, RowsTyped
<1>3. \A k \in DOMAIN tokens : tokens[k].parent # 0 => tokens[k].parent \in DOMAIN tokens
  BY <1>2 DEF LineInv, IsLine
<1> HIDE DEF ts
<1>4. ASSUME NEW k \in DOMAIN ts, ts[k].parent # 0
      PROVE  ts[ts[k].parent].revoked /\ ts[ts[k].parent].family = ts[k].family
  BY <1>1, <1>3, <1>4 DEF LineInv, IsLine
<1>5. ASSUME NEW j \in DOMAIN ts, NEW k \in DOMAIN ts
      PROVE  /\ ts[j].parent = ts[k].parent /\ ts[j].parent # 0 => j = k
             /\ ~ ts[j].revoked /\ ~ ts[k].revoked /\ ts[j].family = ts[k].family => j = k
  BY <1>1 DEF LineInv, IsLine
<1>6. IsLine(ts)
  BY <1>1, <1>4, <1>5 DEF LineInv, IsLine
<1> QED
  BY <1>6 DEF ts

\* A token whose parent, if it has one, was the live end of its line and is
\* revoked now, or a token of a new family, continues the lines.
LEMMA AppendKeepsLine ==
  ASSUME NEW ts \in Seq(TokenRows), Len(ts) < MaxTokens,
         NEW family \in 1..Len(ts) + 1, NEW parent \in 0..Len(ts),
         IsLine(ts),
         \A k \in DOMAIN ts : ts[k].family = family => ts[k].revoked,
         parent # 0 => /\ ts[parent].revoked /\ ts[parent].family = family
                       /\ \A k \in DOMAIN ts : ts[k].parent # parent
  PROVE  IsLine(Append(ts, NewToken(family, parent)))
<1> DEFINE n == Len(ts)
           longer == Append(ts, NewToken(family, parent))
<1>1. n \in Nat /\ DOMAIN ts = 1..n
  OBVIOUS
<1>2. /\ DOMAIN longer = 1..n + 1 /\ Len(longer) = n + 1
      /\ \A k \in 1..n : longer[k] = ts[k]
      /\ longer[n + 1].family = family /\ longer[n + 1].parent = parent
  <2>1. family \in 1..MaxTokens /\ parent \in 0..MaxTokens
    BY <1>1, SessionsAssumption
  <2> QED
    BY <1>1, <2>1, AppendTyped DEF NewToken
<1>3. \A k \in 1..n + 1 : k \in 1..n \/ k = n + 1
  BY <1>1
<1>4. \A k \in 1..n : ts[k].family \in 1..n /\ ts[k].parent \in 0..n
  BY <1>1 DEF IsLine
<1>5. family \in 1..n + 1 /\ parent \in 0..n
  OBVIOUS
<1> HIDE DEF n, longer
<1>6. ASSUME NEW j \in 1..n + 1, NEW k \in 1..n + 1
      PROVE  /\ longer[j].parent = longer[k].parent /\ longer[j].parent # 0 => j = k
             /\ ~ longer[j].revoked /\ ~ longer[k].revoked /\ longer[j].family = longer[k].family
                  => j = k
  BY <1>1, <1>2, <1>3, SMTT(60) DEF IsLine
<1>7. ASSUME NEW k \in 1..n + 1, longer[k].parent # 0
      PROVE  longer[longer[k].parent].revoked /\ longer[longer[k].parent].family = longer[k].family
  <2>1. CASE k = n + 1
    <3>1. parent \in 1..n /\ parent # 0
      BY <1>1, <1>2, <1>5, <1>7, <2>1
    <3> QED
      BY <1>2, <2>1, <3>1
  <2>2. CASE k \in 1..n
    <3>1. ts[k].parent \in 1..n /\ ts[k].parent # 0
      BY <1>1, <1>2, <1>4, <1>7, <2>2
    <3> QED
      BY <1>1, <1>2, <2>2, <3>1 DEF IsLine
  <2> QED
    BY <1>3, <2>1, <2>2
<1>8. ASSUME NEW k \in 1..n + 1
      PROVE  longer[k].family \in 1..n + 1 /\ longer[k].parent \in 0..n + 1
  BY <1>1, <1>2, <1>3, <1>4, <1>5
<1>9. IsLine(longer)
  BY <1>2, <1>6, <1>7, <1>8 DEF IsLine
<1> QED
  BY <1>9 DEF longer

\* A token of a new family starts a line.
LEMMA IssueKeepsLine ==
  ASSUME TypeInv, LineInv, NEW t \in Tabs, IssueSession(t)
  PROVE  LineInv'
<1>1. tokens \in Seq(TokenRows) /\ Len(tokens) \in Nat /\ DOMAIN tokens = 1..Len(tokens)
  BY DEF TypeInv, RowsTyped
<1>2. tokens' = Append(tokens, NewToken(Len(tokens) + 1, 0)) /\ Len(tokens) < MaxTokens
  BY <1>1, SessionsAssumption DEF IssueSession
<1>3. \A k \in DOMAIN tokens : tokens[k].family # Len(tokens) + 1
  BY <1>1 DEF LineInv, IsLine
<1>4. Len(tokens) + 1 \in 1..Len(tokens) + 1 /\ 0 \in 0..Len(tokens)
  BY <1>1
<1> QED
  BY <1>1, <1>2, <1>3, <1>4, AppendKeepsLine DEF LineInv

\* A rotation replaces the live end of a line by a new one.
LEMMA RotateKeepsLine ==
  ASSUME TypeInv, LineInv, NEW t \in Tabs, NEW s \in Slots, Rotate(t, s)
  PROVE  LineInv'
<1> DEFINE n == Len(tokens)
           old == Call(t, s).token
<1>1. n \in Nat /\ DOMAIN tokens = 1..n /\ old \in 1..n
  <2>1. old \in 0..n /\ old # 0 /\ n \in Nat
    BY AtRefresh DEF Rotate
  <2>2. DOMAIN tokens = 1..n
    BY DEF TypeInv, RowsTyped
  <2> HIDE DEF old
  <2> QED
    BY <2>1, <2>2
<1>2. CASE ~ Rotatable(old)
  <2>1. UNCHANGED tokens
    BY <1>2 DEF Rotate
  <2> QED
    BY <2>1 DEF LineInv
<1>3. CASE Rotatable(old)
  <2> DEFINE ts == Revoked({old})
             family == tokens[old].family
  <2>1. tokens' = Append(ts, NewToken(family, old)) /\ n < MaxTokens
    <3>1. tokens' = Append(ts, NewToken(family, old)) /\ n + 1 <= MaxTokens
      BY <1>3 DEF Rotate
    <3> QED
      BY <1>1, <3>1, SessionsAssumption
  <2>2. /\ ts \in Seq(TokenRows) /\ Len(ts) = n /\ DOMAIN ts = 1..n
        /\ \A k \in 1..n : /\ ts[k].family = tokens[k].family
                           /\ ts[k].parent = tokens[k].parent
                           /\ ts[k].revoked <=> (k = old \/ tokens[k].revoked)
    BY <1>1, RevokedTyped DEF TypeInv
  <2>3. family \in 1..n + 1
    BY <1>1 DEF LineInv, IsLine
  <2>4. ~ tokens[old].revoked
    BY <1>3 DEF Rotatable, Live
  <2>5. IsLine(ts)
    BY RevokingKeepsLine
  <2> HIDE DEF n, old
  <2>6. \A k \in 1..n : tokens[k].parent # old
    BY <1>1, <2>4 DEF LineInv, IsLine
  <2>7. \A k \in 1..n : tokens[k].family = family => k = old \/ tokens[k].revoked
    BY <1>1, <2>4 DEF LineInv, IsLine
  <2> HIDE DEF ts, family
  <2>8. \A k \in DOMAIN ts : ts[k].family = family => ts[k].revoked
    BY <2>2, <2>7
  <2>9. ts[old].revoked /\ ts[old].family = family /\ \A k \in DOMAIN ts : ts[k].parent # old
    BY <1>1, <2>2, <2>6 DEF family
  <2>10. old \in 0..Len(ts) /\ family \in 1..Len(ts) + 1 /\ Len(ts) < MaxTokens
    BY <1>1, <2>1, <2>2, <2>3
  <2>11. IsLine(Append(ts, NewToken(family, old)))
    BY <2>2, <2>5, <2>8, <2>9, <2>10, AppendKeepsLine
  <2> QED
    BY <2>1, <2>11 DEF LineInv
<1> QED
  BY <1>2, <1>3

LEMMA NextLine == TypeInv /\ LineInv /\ [SessionsNext]_sessionsVars => LineInv'
<1> SUFFICES ASSUME TypeInv, LineInv, [SessionsNext]_sessionsVars PROVE LineInv'
  OBVIOUS
<1>1. CASE UNCHANGED tokens
  BY <1>1 DEF LineInv
<1>2. CASE \E ids : tokens' = Revoked(ids)
  BY <1>2, RevokingKeepsLine DEF LineInv
<1>3. ASSUME NEW t \in Tabs, ServerStep(t) PROVE LineInv'
  <2>1. \/ UNCHANGED tokens \/ \E ids : tokens' = Revoked(ids)
        \/ IssueSession(t) \/ \E s \in Slots : Rotate(t, s)
    BY <1>3 DEF ServerStep, FindToken, RevokeFamily, BumpVersion, LoginCompare, NoAccessToken,
                GuardHit, GuardRead, GuardStore, ServeApi, ServeLogout, ServePassword, server
  <2> QED
    BY <1>1, <1>2, <2>1, IssueKeepsLine, RotateKeepsLine
<1>4. ASSUME NEW t \in Tabs, ClientStep(t) \/ Begin(t) \/ Reload(t) PROVE LineInv'
  BY <1>1, <1>4 DEF ClientStep, DeliverSession, Lose, JoinFlight, Deliver, GiveUp,
                    Begin, Open, SubmitLogin, SilentRefresh, Use, Reload, server
<1>5. CASE Deactivate \/ AccessExpires \/ ClockRuns \/ UNCHANGED sessionsVars
  BY <1>1, <1>5 DEF Deactivate, AccessExpires, ClockRuns, server, sessionsVars
<1> QED
  BY <1>3, <1>4, <1>5 DEF SessionsNext

\* However many refreshes overlap, repeat or lose their answers, a token is
\* replaced once at most, and one token of a family is live at most (the
\* conditional update of rotateRefreshToken, and the revocation of families).
THEOREM RotationIsALineAlways == SessionsSpec => []RotationIsALine
<1>1. SessionsInit => LineInv
  BY DEF SessionsInit, LineInv, IsLine
<1>2. SessionsSpec => []TypeInv
  BY InitTypes, NextTypes, PTL DEF SessionsSpec
<1>3. SessionsSpec => []LineInv
  BY <1>1, <1>2, NextLine, PTL DEF SessionsSpec
<1> QED
  BY <1>2, <1>3, LineIsRotation, PTL

-----------------------------------------------------------------------------
(* The cache of the guard. *)

Differs(row) == row.tv # user.tv \/ row.active # user.active

Reading(c) == c # Idle /\ c.pc = "reading"

\* A row that is on its way to the guard and is no longer true has changed
\* since it was read: that is what bounds the entry it becomes.
StaleInv ==
  /\ changed # Absent => changed <= clock
  /\ cache # Absent => cache.until <= clock + CacheTtl /\ cache.took >= 0
  /\ cache # Absent /\ Differs(cache)
       => changed # Absent /\ cache.until <= changed + CacheTtl + cache.took
  /\ \A t \in Tabs :
       Reading(call[t]["main"]) =>
         /\ call[t]["main"].row.at <= clock
         /\ Differs(call[t]["main"].row)
              => changed # Absent /\ call[t]["main"].row.at <= changed

\* Only GuardRead makes a request wait for its row; whatever else happens to
\* the requests takes none of them there.
NoneStartsReading ==
  \A t \in Tabs : call'[t]["main"] = call[t]["main"] \/ ~ Reading(call'[t]["main"])

LEMMA PutReads ==
  ASSUME TypeInv, NEW t \in Tabs, NEW s \in Slots, NEW c, Put(t, s, c),
         s = "main" => ~ Reading(c)
  PROVE  NoneStartsReading
<1>1. call \in [Tabs -> [Slots -> Calls \union {Idle}]] /\ "main" \in Slots
  BY DEF TypeInv, CallsKept, Slots
<1> QED
  BY <1>1 DEF Put, NoneStartsReading

LEMMA RecordReads ==
  ASSUME NEW c \in Calls, NEW pc \in Places \ {"reading"}
  PROVE  /\ \A v : ~ Reading([c EXCEPT !.pc = pc, !.version = v])
         /\ \A v, w : ~ Reading([c EXCEPT !.pc = pc, !.row = v, !.access = w])
         /\ \A v, w : ~ Reading([c EXCEPT !.pc = pc, !.reply = v,
                                   !.token = 0, !.access = w, !.version = w])
         /\ ~ Reading([c EXCEPT !.pc = pc])
BY DEF Reading, Calls

LEMMA ServerReads ==
  ASSUME TypeInv, NEW t \in Tabs, ServerStep(t), ~ GuardRead(t)
  PROVE  NoneStartsReading
<1>1. "main" \in Slots /\ call \in [Tabs -> [Slots -> Calls \union {Idle}]]
  BY DEF Slots, TypeInv, CallsKept
<1>2. ASSUME NEW s \in Slots, NEW ops, NEW pc, At(t, s, ops, pc), "idle" \notin ops
      PROVE  Call(t, s) \in Calls
  BY <1>1, <1>2 DEF At, Call, Idle
<1>3. {"answered", "replayed", "found", "familyRevoked", "passed", "unauthorized",
       "admitted"} \subseteq Places \ {"reading"}
  BY DEF Places
<1>4. ASSUME NEW s \in Slots, NEW reply, Answer(t, s, reply), Call(t, s) \in Calls
      PROVE  NoneStartsReading
  BY <1>3, <1>4, PutReads, RecordReads DEF Answer
<1>5. ASSUME NEW s \in Slots, NEW pc \in {"replayed", "familyRevoked", "unauthorized"},
             Step(t, s, pc), Call(t, s) \in Calls
      PROVE  NoneStartsReading
  BY <1>3, <1>5, PutReads, RecordReads DEF Step
<1>6. "idle" \notin Refreshes /\ "idle" \notin Guarded
  BY DEF Refreshes, Guarded
<1>7. ASSUME NEW s \in Slots, FindToken(t, s) PROVE NoneStartsReading
  <2>1. Call(t, s) \in Calls
    BY <1>2, <1>6, <1>7 DEF FindToken
  <2>2. CASE Put(t, s, [Call(t, s) EXCEPT !.pc = "found", !.version = user.tv])
    BY <1>3, <2>1, <2>2, PutReads, RecordReads
  <2> QED
    BY <1>4, <1>5, <1>7, <2>1, <2>2 DEF FindToken
<1>8. ASSUME NEW s \in Slots, RevokeFamily(t, s) \/ BumpVersion(t, s) \/ Rotate(t, s)
      PROVE  NoneStartsReading
  <2>1. Call(t, s) \in Calls
    BY <1>2, <1>6, <1>8 DEF RevokeFamily, BumpVersion, Rotate
  <2> QED
    BY <1>4, <1>5, <1>8, <2>1 DEF RevokeFamily, BumpVersion, Rotate
<1>9. CASE LoginCompare(t) \/ IssueSession(t)
  <2>1. Call(t, "main") \in Calls
    BY <1>1, <1>2, <1>9 DEF LoginCompare, IssueSession
  <2>2. CASE Put(t, "main", [Call(t, "main") EXCEPT !.pc = "passed", !.version = user.tv])
    BY <1>1, <1>3, <2>1, <2>2, PutReads, RecordReads
  <2> QED
    BY <1>1, <1>4, <1>9, <2>1, <2>2 DEF LoginCompare, IssueSession
<1>10. CASE NoAccessToken(t)
  BY <1>1, <1>2, <1>5, <1>6, <1>10 DEF NoAccessToken, Unauthorized
<1>11. CASE GuardHit(t) \/ GuardStore(t)
  <2>1. Call(t, "main") \in Calls
    BY <1>1, <1>2, <1>6, <1>11 DEF GuardHit, GuardStore
  <2>2. PICK row : Admit(t, row)
    BY <1>11 DEF GuardHit, GuardStore
  <2> QED
    BY <1>1, <1>3, <2>1, <2>2, PutReads, RecordReads DEF Admit
<1>12. CASE ServeApi(t) \/ ServeLogout(t) \/ ServePassword(t)
  <2>1. Call(t, "main") \in Calls
    BY <1>1, <1>2, <1>12 DEF ServeApi, ServeLogout, ServePassword
  <2> QED
    BY <1>1, <1>4, <1>12, <2>1 DEF ServeApi, ServeLogout, ServePassword
<1> QED
  BY <1>7, <1>8, <1>9, <1>10, <1>11, <1>12 DEF ServerStep

LEMMA ClientReads ==
  ASSUME TypeInv, NEW t \in Tabs, ClientStep(t) \/ Begin(t) \/ Reload(t)
  PROVE  NoneStartsReading
<1>1. "main" \in Slots /\ "flight" \in Slots /\ call \in [Tabs -> [Slots -> Calls \union {Idle}]]
  BY DEF Slots, TypeInv, CallsKept
<1>2. ~ Reading(Idle)
  BY DEF Reading
<1>3. \A op : ~ Reading(Sent(op))
  BY DEF Reading, Sent
<1>4. ASSUME NEW granted, NEW cookies, EndFlight(t, granted, cookies) PROVE NoneStartsReading
  <2> DEFINE c == call[t]["main"]
             again == [Sent(c.op) EXCEPT !.retried = TRUE, !.access = cookies.access]
             failed == [c EXCEPT !.pc = "unauthorized", !.retried = TRUE]
  <2>1. \A u \in Tabs : call'[u]["main"] \in
          IF u = t THEN {c} \union (IF c = Idle THEN {} ELSE {again, failed})
          ELSE {call[u]["main"]}
    BY <1>1, <1>4 DEF EndFlight, Call
  <2>2. ~ Reading(again)
    BY DEF Reading, Sent
  <2>3. c # Idle => ~ Reading(failed)
    <3>1. c # Idle => c \in Calls
      BY <1>1
    <3> HIDE DEF c
    <3> QED
      BY <3>1 DEF Reading, Calls
  <2> QED
    BY <2>1, <2>2, <2>3 DEF NoneStartsReading
<1>5. CASE JoinFlight(t)
  <2>1. call[t]["main"] \in Calls
    BY <1>1, <1>5 DEF JoinFlight, At, Call, Guarded, Idle
  <2>2. ~ Reading([call[t]["main"] EXCEPT !.pc = "waiting"])
    BY <2>1, RecordReads DEF Places
  <2>3. \A u \in Tabs : call'[u]["main"] \in
          {call[u]["main"]} \union (IF u = t THEN {[call[t]["main"] EXCEPT !.pc = "waiting"]} ELSE {})
    BY <1>1, <1>5 DEF JoinFlight
  <2> QED
    BY <2>2, <2>3 DEF NoneStartsReading
<1>6. CASE Reload(t)
  BY <1>1, <1>2, <1>6 DEF Reload, NoneStartsReading
<1>7. CASE Begin(t)
  BY <1>1, <1>3, <1>7, PutReads
     DEF Begin, Open, SubmitLogin, SilentRefresh, Use, Start, Slots
<1>8. ASSUME NEW s \in Slots, DeliverSession(t, s) \/ Lose(t, s) PROVE NoneStartsReading
  BY <1>2, <1>3, <1>4, <1>8, PutReads DEF DeliverSession, Lose
<1>9. CASE Deliver(t) \/ GiveUp(t)
  BY <1>1, <1>2, <1>9, PutReads DEF Deliver, GiveUp
<1> QED
  BY <1>5, <1>6, <1>7, <1>8, <1>9 DEF ClientStep

LEMMA RowOnItsWay ==
  ASSUME TypeInv, NEW t \in Tabs, Reading(call[t]["main"])
  PROVE  call[t]["main"].row \in UserRows
<1>1. Kept(call[t]["main"], "main", Len(tokens))
  BY DEF TypeInv, CallsKept, Slots
<1> QED
  BY <1>1 DEF Kept, Reading

\* What happens elsewhere leaves the cache as close to the row as it was.
LEMMA ElsewhereKeepsBound ==
  ASSUME TypeInv, StaleInv, NoneStartsReading, UNCHANGED <<user, changed, cache, clock>>
  PROVE  StaleInv'
BY DEF StaleInv, NoneStartsReading, Differs

\* A change of the users row comes after whatever was read or kept.
LEMMA ChangeKeepsBound ==
  ASSUME TypeInv, StaleInv, NoneStartsReading, changed' = clock, UNCHANGED <<cache, clock>>
  PROVE  StaleInv'
<1>1. clock \in Nat /\ clock # Absent
  BY SessionsAssumption DEF TypeInv, RowsTyped
<1>2. cache # Absent => /\ cache.until \in Nat /\ cache.took \in Int /\ CacheTtl \in Nat
                      /\ cache.until <= clock + CacheTtl /\ cache.took >= 0
  BY SessionsAssumption DEF TypeInv, RowsTyped, StaleInv
<1>3. cache # Absent => cache.until <= clock + CacheTtl + cache.took
  BY <1>1, <1>2
<1>4. (cache # Absent /\ Differs(cache)
         => changed # Absent /\ cache.until <= changed + CacheTtl + cache.took)'
  BY <1>1, <1>3
<1>5. (\A t \in Tabs :
         Reading(call[t]["main"]) =>
           /\ call[t]["main"].row.at <= clock
           /\ Differs(call[t]["main"].row)
                => changed # Absent /\ call[t]["main"].row.at <= changed)'
  BY <1>1 DEF StaleInv, NoneStartsReading
<1>6. (cache # Absent => cache.until <= clock + CacheTtl /\ cache.took >= 0)'
  BY <1>2
<1> QED
  BY <1>1, <1>4, <1>5, <1>6 DEF StaleInv

LEMMA GuardReadBound ==
  ASSUME TypeInv, StaleInv, NEW t \in Tabs, GuardRead(t)
  PROVE  StaleInv'
<1> DEFINE c == call[t]["main"]
           row == [tv |-> user.tv, active |-> user.active, at |-> clock]
           d == [c EXCEPT !.pc = "reading", !.row = row]
<1>1. "main" \in Slots /\ call \in [Tabs -> [Slots -> Calls \union {Idle}]]
  BY DEF Slots, TypeInv, CallsKept
<1>2. c \in Calls
  BY <1>1 DEF GuardRead, At, Call, Guarded, Idle
<1>3. \A u \in Tabs : call'[u]["main"] = IF u = t THEN d ELSE call[u]["main"]
  BY <1>1 DEF GuardRead, Put, Call
<1>4. d.row = row
  <2> HIDE DEF c, row
  <2> QED
    BY <1>2 DEF Calls
<1>5. UNCHANGED <<user, changed, cache, clock>> /\ clock \in Nat
  BY DEF GuardRead, server, TypeInv, RowsTyped
<1>6. row.at <= clock /\ ~ Differs(row)
  BY <1>5 DEF Differs
<1> HIDE DEF c, d, row
<1>7. (\A u \in Tabs :
         Reading(call[u]["main"]) =>
           /\ call[u]["main"].row.at <= clock
           /\ Differs(call[u]["main"].row)
                => changed # Absent /\ call[u]["main"].row.at <= changed)'
  BY <1>3, <1>4, <1>5, <1>6 DEF StaleInv, Differs
<1> QED
  BY <1>5, <1>7 DEF StaleInv, Differs

LEMMA GuardStoreBound ==
  ASSUME TypeInv, StaleInv, NEW t \in Tabs, GuardStore(t)
  PROVE  StaleInv'
<1> DEFINE row == call[t]["main"].row
<1>1. UNCHANGED <<user, changed, clock>> /\ clock \in Nat /\ CacheTtl \in Nat
  BY SessionsAssumption DEF GuardStore, server, TypeInv, RowsTyped
<1>2. cache' = [tv |-> row.tv, active |-> row.active, until |-> clock + CacheTtl,
                took |-> clock - row.at]
  BY DEF GuardStore, Call
<1>3. /\ cache'.until = clock + CacheTtl /\ cache'.took = clock - row.at
      /\ cache'.tv = row.tv /\ cache'.active = row.active
  BY <1>2
<1>4. NoneStartsReading
  <2>1. ServerStep(t)
    BY DEF ServerStep
  <2>2. ~ GuardRead(t)
    BY DEF GuardStore, GuardRead, At
  <2> QED
    BY <2>1, <2>2, ServerReads
<1>5. Reading(call[t]["main"])
  BY DEF GuardStore, At, Call, Guarded, Idle, Reading
<1>6. row.at \in Nat
  BY <1>5, RowOnItsWay, SessionsAssumption DEF UserRows
<1>7. row.at <= clock /\ (Differs(row) => changed # Absent /\ row.at <= changed)
  BY <1>5 DEF StaleInv
<1>8. changed # Absent => changed \in Nat
  BY SessionsAssumption DEF TypeInv, RowsTyped
<1> HIDE DEF row
<1>9. Differs(row) => changed # Absent /\ clock + CacheTtl <= changed + CacheTtl + (clock - row.at)
  BY <1>1, <1>6, <1>7, <1>8
<1>10. (cache # Absent /\ Differs(cache)
          => changed # Absent /\ cache.until <= changed + CacheTtl + cache.took)'
  BY <1>1, <1>3, <1>9 DEF Differs
<1>11. (cache # Absent => cache.until <= clock + CacheTtl /\ cache.took >= 0)'
  BY <1>1, <1>3, <1>6, <1>7
<1>12. (\A u \in Tabs :
          Reading(call[u]["main"]) =>
            /\ call[u]["main"].row.at <= clock
            /\ Differs(call[u]["main"].row)
                 => changed # Absent /\ call[u]["main"].row.at <= changed)'
  BY <1>1, <1>4 DEF StaleInv, NoneStartsReading, Differs
<1> QED
  BY <1>1, <1>10, <1>11, <1>12 DEF StaleInv

LEMMA TickBound ==
  ASSUME TypeInv, StaleInv, ClockRuns
  PROVE  StaleInv'
<1>1. clock \in Nat /\ clock' = clock + 1 /\ UNCHANGED <<user, changed, cache, call>>
  BY DEF ClockRuns, server, TypeInv, RowsTyped
<1>2. \A t \in Tabs : Reading(call[t]["main"]) => call[t]["main"].row.at \in Nat
  BY RowOnItsWay, SessionsAssumption DEF UserRows
<1>3. cache # Absent => cache.until \in Nat
  BY DEF TypeInv, RowsTyped
<1>4. changed # Absent => changed \in Nat
  BY DEF TypeInv, RowsTyped
<1>5. cache # Absent => cache.until <= clock + CacheTtl /\ cache.took >= 0
  BY DEF StaleInv
<1>6. cache' # Absent => cache'.until <= clock' + CacheTtl /\ cache'.took >= 0
  BY <1>1, <1>3, <1>5, SessionsAssumption
<1>7. changed' # Absent => changed' <= clock'
  BY <1>1, <1>4 DEF StaleInv
<1>8. (cache # Absent /\ Differs(cache)
         => changed # Absent /\ cache.until <= changed + CacheTtl + cache.took)'
  BY <1>1 DEF StaleInv, Differs
<1>9. \A t \in Tabs : Reading(call[t]["main"]) => call[t]["main"].row.at <= clock + 1
  BY <1>1, <1>2 DEF StaleInv
<1>10. (\A t \in Tabs :
          Reading(call[t]["main"]) =>
            /\ call[t]["main"].row.at <= clock
            /\ Differs(call[t]["main"].row)
                 => changed # Absent /\ call[t]["main"].row.at <= changed)'
  BY <1>1, <1>9 DEF StaleInv, Reading, Differs
<1> QED
  BY <1>6, <1>7, <1>8, <1>10 DEF StaleInv

LEMMA NextBound == TypeInv /\ StaleInv /\ [SessionsNext]_sessionsVars => StaleInv'
<1> SUFFICES ASSUME TypeInv, StaleInv, [SessionsNext]_sessionsVars PROVE StaleInv'
  OBVIOUS
<1>1. ASSUME NEW t \in Tabs, ServerStep(t) PROVE StaleInv'
  <2>1. CASE GuardRead(t) \/ GuardStore(t)
    BY <2>1, GuardReadBound, GuardStoreBound
  <2>2. CASE ServePassword(t) \/ \E s \in Slots : BumpVersion(t, s)
    <3>1. user' # user
      BY <2>2 DEF ServePassword, BumpVersion, TypeInv, RowsTyped
    <3>2. ~ GuardRead(t)
      BY <3>1 DEF GuardRead, server
    <3> QED
      BY <1>1, <2>2, <3>2, ServerReads, ChangeKeepsBound DEF ServePassword, BumpVersion
  <2>3. CASE ~ GuardRead(t) /\ UNCHANGED <<user, changed, cache, clock>>
    BY <1>1, <2>3, ServerReads, ElsewhereKeepsBound
  <2>4. \/ GuardRead(t) \/ GuardStore(t) \/ ServePassword(t) \/ \E s \in Slots : BumpVersion(t, s)
        \/ UNCHANGED <<user, changed, cache, clock>>
    BY <1>1 DEF ServerStep, FindToken, RevokeFamily, Rotate, LoginCompare, IssueSession,
                NoAccessToken, GuardHit, AfterHit, ServeApi, ServeLogout, server
  <2> QED
    BY <2>1, <2>2, <2>3, <2>4
<1>2. ASSUME NEW t \in Tabs, ClientStep(t) \/ Begin(t) \/ Reload(t) PROVE StaleInv'
  <2>1. UNCHANGED <<user, changed, cache, clock>>
    BY <1>2 DEF ClientStep, DeliverSession, Lose, JoinFlight, Deliver, GiveUp,
                Begin, Open, SubmitLogin, SilentRefresh, Use, Reload, server
  <2> QED
    BY <1>2, <2>1, ClientReads, ElsewhereKeepsBound
<1>3. CASE Deactivate
  BY <1>3, ChangeKeepsBound DEF Deactivate, NoneStartsReading
<1>4. CASE AccessExpires \/ UNCHANGED sessionsVars
  <2>1. NoneStartsReading /\ UNCHANGED <<user, changed, cache, clock>>
    BY <1>4 DEF AccessExpires, server, sessionsVars, NoneStartsReading
  <2> QED
    BY <2>1, ElsewhereKeepsBound
<1> QED
  BY <1>1, <1>2, <1>3, <1>4, TickBound DEF SessionsNext

\* The guard works with a users row that is no longer true for the TTL and the
\* time the row was on its way at most, even if the row changed between its
\* read and its storing (JwtAuthGuard).
THEOREM CacheTtlBoundsStalenessAlways == SessionsSpec => []CacheTtlBoundsStaleness
<1>1. SessionsInit => StaleInv
  BY DEF SessionsInit, StaleInv, Reading, Slots
<1>2. SessionsSpec => []TypeInv
  BY InitTypes, NextTypes, PTL DEF SessionsSpec
<1>3. SessionsSpec => []StaleInv
  BY <1>1, <1>2, NextBound, PTL DEF SessionsSpec
<1>4. StaleInv => CacheTtlBoundsStaleness
  BY DEF StaleInv, CacheTtlBoundsStaleness, Differs
<1> QED
  BY <1>3, <1>4, PTL
=============================================================================
