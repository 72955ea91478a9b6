------------------------------ MODULE Sessions ------------------------------
(***************************************************************************)
(* The sessions of one user, from both sides: the refresh tokens and the   *)
(* token version in the database, the user cache of the guard, and the     *)
(* browser tabs that share one cookie jar.                                 *)
(*                                                                         *)
(* A tab has three requests it may have under way: one of its own (main),  *)
(* the silent refresh of the expiry timer (timer), and the refresh that    *)
(* its unauthorized requests share (flight).  A request goes through the   *)
(* server one database statement at a time; its answer, or the request     *)
(* itself, may be lost at any point.                                       *)
(*                                                                         *)
(* Every statement is one instant; the clock runs on while a guard waits   *)
(* for the row that its statement found.                                   *)
(***************************************************************************)
EXTENDS Integers, Sequences, FiniteSets

CONSTANTS
  Tabs,          \* tabs of one browser
  Attempts,      \* attempts of restore(): the length of backoffMs
  CacheTtl,      \* USER_CACHE_TTL_MS
  LastTick,      \* bound: last tick of the clock
  MaxTokens,     \* bound: rows of refresh_tokens
  MaxChanges,    \* bound: token_version
  Absent

ASSUME SessionsAssumption ==
  /\ Attempts \in Nat \ {0} /\ CacheTtl \in Nat \ {0}
  /\ LastTick \in Nat /\ MaxTokens \in Nat /\ MaxChanges \in Nat
  /\ Absent \notin Nat

Slots == {"main", "timer", "flight"}

VARIABLES
  tokens,   \* refresh_tokens, in the order they are created
  user,     \* the users row
  cache,    \* USER_CACHE: what the guard keeps of the users row, or Absent;
            \* took (history): how long the row was on its way
  jar,      \* cookies: a refresh token (0: none) and the version in the access token
  tab,      \* AuthState of each tab, and which attempt restore() is at
  call,     \* the requests of each tab
  changed,  \* when the users row last changed in a way the guard looks at
  clock

sessionsVars == <<tokens, user, cache, jar, tab, call, changed, clock>>
server == <<tokens, user, changed>>

Idle == [op |-> "idle"]
Refreshes == {"restore", "silent", "flight"}
Guarded == {"api", "logout", "password"}

Call(t, s) == call[t][s]
Put(t, s, c) == call' = [call EXCEPT ![t][s] = c]
Step(t, s, pc) == Put(t, s, [Call(t, s) EXCEPT !.pc = pc])

\* A request carries the cookies of the moment it is sent; kept here is the
\* one its handler looks at.
Sent(op) ==
  [op |-> op, pc |-> "sent",
   token |-> IF op \in Refreshes THEN jar.refresh ELSE 0,
   access |-> IF op \in Guarded THEN jar.access ELSE Absent,
   version |-> Absent, row |-> Absent, reply |-> Absent, retried |-> FALSE]

Refused == [ok |-> FALSE, token |-> 0, access |-> Absent]
Granted(token, access) == [ok |-> TRUE, token |-> token, access |-> access]

Answer(t, s, reply) ==
  Put(t, s, [Call(t, s) EXCEPT !.pc = "answered", !.reply = reply,
               !.token = 0, !.access = Absent, !.version = Absent])

At(t, s, ops, pc) == Call(t, s).op \in ops /\ Call(t, s).pc = pc

SessionsInit ==
  /\ tokens = <<>>
  /\ user = [tv |-> 0, active |-> TRUE]
  /\ cache = Absent
  /\ jar = [refresh |-> 0, access |-> Absent]
  /\ tab = [t \in Tabs |-> [state |-> "closed", attempt |-> 0]]
  /\ call = [t \in Tabs |-> [s \in Slots |-> Idle]]
  /\ changed = Absent
  /\ clock = 0

Live(k) == ~ tokens[k].revoked
Revoked(ids) ==
  [k \in DOMAIN tokens |->
     IF k \in ids THEN [tokens[k] EXCEPT !.revoked = TRUE] ELSE tokens[k]]

NewToken(family, parent) == [family |-> family, parent |-> parent, revoked |-> FALSE]

-----------------------------------------------------------------------------
(* AuthService.refreshToken *)

\* The row of the cookie's token, with the user of that moment.
FindToken(t, s) ==
  LET c == Call(t, s)
  IN  /\ At(t, s, Refreshes, "sent")
      /\ CASE c.token = 0 -> Answer(t, s, Refused)
           [] c.token # 0 /\ ~ Live(c.token) -> Step(t, s, "replayed")
           [] c.token # 0 /\ Live(c.token) /\ ~ user.active -> Answer(t, s, Refused)
           [] OTHER -> Put(t, s, [c EXCEPT !.pc = "found", !.version = user.tv])
      /\ UNCHANGED <<server, cache, jar, tab, clock>>

\* A used token came back: its family is revoked ...
RevokeFamily(t, s) ==
  LET family == tokens[Call(t, s).token].family
  IN  /\ At(t, s, Refreshes, "replayed")
      /\ tokens' = Revoked({k \in DOMAIN tokens : tokens[k].family = family})
      /\ Step(t, s, "familyRevoked")
      /\ UNCHANGED <<user, cache, jar, tab, changed, clock>>

\* ... and then every access token of the user.
BumpVersion(t, s) ==
  /\ At(t, s, Refreshes, "familyRevoked")
  /\ user.tv < MaxChanges
  /\ user' = [user EXCEPT !.tv = @ + 1]
  /\ changed' = clock
  /\ Answer(t, s, Refused)
  /\ UNCHANGED <<tokens, cache, jar, tab, clock>>

\* Slip: the rotation does not ask whether the token is still live.
RotatesAnything(k) == TRUE

\* updateMany(where: id, is_revoked: false)
Rotatable(k) == Live(k)

Rotate(t, s) ==
  LET c == Call(t, s)
      new == Len(tokens) + 1
  IN  /\ At(t, s, Refreshes, "found")
      /\ IF Rotatable(c.token)
         THEN /\ new <= MaxTokens
              /\ tokens' = Append(Revoked({c.token}),
                                  NewToken(tokens[c.token].family, c.token))
              /\ Answer(t, s, Granted(new, c.version))
         ELSE Answer(t, s, Refused) /\ UNCHANGED tokens
      /\ UNCHANGED <<user, cache, jar, tab, changed, clock>>

-----------------------------------------------------------------------------
(* AuthService.login *)

\* The password is right; failed attempts, which count towards a lock of the
\* account, are not modelled.
LoginCompare(t) ==
  /\ At(t, "main", {"login"}, "sent")
  /\ IF user.active
     THEN Put(t, "main", [Call(t, "main") EXCEPT !.pc = "passed", !.version = user.tv])
     ELSE Answer(t, "main", Refused)
  /\ UNCHANGED <<server, cache, jar, tab, clock>>

\* A token of a new family.
IssueSession(t) ==
  LET new == Len(tokens) + 1
  IN  /\ At(t, "main", {"login"}, "passed")
      /\ new <= MaxTokens
      /\ tokens' = Append(tokens, NewToken(new, 0))
      /\ Answer(t, "main", Granted(new, Call(t, "main").version))
      /\ UNCHANGED <<user, cache, jar, tab, changed, clock>>

-----------------------------------------------------------------------------
(* JwtAuthGuard, and the three requests behind it that matter here.         *)

Unauthorized(t) == Step(t, "main", "unauthorized")

Passes(row, access) == row.active /\ row.tv = access

Admit(t, row) ==
  LET to == IF Passes(row, Call(t, "main").access) THEN "admitted" ELSE "unauthorized"
  IN  Put(t, "main", [Call(t, "main") EXCEPT !.pc = to, !.row = Absent,
                                             !.access = Absent])

CacheFresh == cache # Absent /\ cache.until > clock

\* Slip: an entry that is used is kept for longer.
Renewed == [cache EXCEPT !.until = clock + CacheTtl]

AfterHit == cache

NoAccessToken(t) ==
  /\ At(t, "main", Guarded, "sent")
  /\ Call(t, "main").access = Absent
  /\ Unauthorized(t)
  /\ UNCHANGED <<server, cache, jar, tab, clock>>

GuardHit(t) ==
  /\ At(t, "main", Guarded, "sent")
  /\ Call(t, "main").access # Absent
  /\ CacheFresh
  /\ cache' = AfterHit
  /\ Admit(t, cache)
  /\ UNCHANGED <<server, jar, tab, clock>>

GuardRead(t) ==
  /\ At(t, "main", Guarded, "sent")
  /\ Call(t, "main").access # Absent
  /\ ~ CacheFresh
  /\ Put(t, "main", [Call(t, "main") EXCEPT !.pc = "reading",
                       !.row = [tv |-> user.tv, active |-> user.active, at |-> clock]])
  /\ UNCHANGED <<server, cache, jar, tab, clock>>

\* The row that arrives is kept from now on, whatever happened to it since it
\* was read, and however long ago that was.
GuardStore(t) ==
  LET row == Call(t, "main").row
  IN  /\ At(t, "main", Guarded, "reading")
      /\ cache' = [tv |-> row.tv, active |-> row.active, until |-> clock + CacheTtl,
                   took |-> clock - row.at]
      /\ Admit(t, row)
      /\ UNCHANGED <<server, jar, tab, clock>>

ServeApi(t) ==
  /\ At(t, "main", {"api"}, "admitted")
  /\ Answer(t, "main", Granted(0, Absent))
  /\ UNCHANGED <<server, cache, jar, tab, clock>>

ServeLogout(t) ==
  /\ At(t, "main", {"logout"}, "admitted")
  /\ tokens' = Revoked(DOMAIN tokens)
  /\ Answer(t, "main", Granted(0, Absent))
  /\ UNCHANGED <<user, changed, cache, jar, tab, clock>>

\* The new hash, the version and the tokens in one transaction.
ServePassword(t) ==
  /\ At(t, "main", {"password"}, "admitted")
  /\ user.tv < MaxChanges
  /\ user' = [user EXCEPT !.tv = @ + 1]
  /\ changed' = clock
  /\ tokens' = Revoked(DOMAIN tokens)
  /\ Answer(t, "main", Granted(0, Absent))
  /\ UNCHANGED <<cache, jar, tab, clock>>

\* UserService.updateUser with isActive: false.
Deactivate ==
  /\ user.active
  /\ user' = [user EXCEPT !.active = FALSE]
  /\ changed' = clock
  /\ UNCHANGED <<tokens, cache, jar, tab, call, clock>>

-----------------------------------------------------------------------------
(* The web client.                                                          *)

SetTab(t, state) == tab' = [tab EXCEPT ![t] = [state |-> state, attempt |-> 0]]

Start(t, s, op) == Call(t, s) = Idle /\ Put(t, s, Sent(op))

Open(t) ==
  /\ tab[t].state = "closed"
  /\ tab' = [tab EXCEPT ![t] = [state |-> "loading", attempt |-> 1]]
  /\ Start(t, "main", "restore")
  /\ UNCHANGED <<server, cache, jar, clock>>

Use(t, op) ==
  /\ tab[t].state = "signedIn"
  /\ Start(t, "main", op)
  /\ UNCHANGED <<server, cache, jar, tab, clock>>

SubmitLogin(t) ==
  /\ tab[t].state = "signedOut"
  /\ Start(t, "main", "login")
  /\ UNCHANGED <<server, cache, jar, tab, clock>>

\* checkExpiry posts to /auth/refresh itself, whether or not a flight is on.
SilentRefresh(t) ==
  /\ tab[t].state = "signedIn"
  /\ Start(t, "timer", "silent")
  /\ UNCHANGED <<server, cache, jar, tab, clock>>

\* A 401: the first one waits for the shared refresh, a retried one is final.
JoinFlight(t) ==
  /\ At(t, "main", Guarded, "unauthorized")
  /\ ~ Call(t, "main").retried
  /\ call' = [call EXCEPT ![t]["main"].pc = "waiting",
                          ![t]["flight"] = IF @ = Idle THEN Sent("flight") ELSE @]
  /\ UNCHANGED <<server, cache, jar, tab, clock>>

CookiesOf(reply) == [refresh |-> reply.token, access |-> reply.access]

\* How a tab goes on when its refresh was refused, or a login granted.
AfterRefresh(t, s, granted) ==
  CASE granted /\ s # "flight" -> SetTab(t, "signedIn")
    [] ~ granted /\ Call(t, s).op \in {"restore", "silent"} -> SetTab(t, "signedOut")
    [] OTHER -> UNCHANGED tab

\* The request that waited is sent again with the new cookies, once.
EndFlight(t, granted, cookies) ==
  LET main == Call(t, "main")
      again == [Sent(main.op) EXCEPT !.retried = TRUE, !.access = cookies.access]
  IN  call' = [call EXCEPT ![t]["flight"] = Idle,
        ![t]["main"] = CASE main = Idle -> main
                         [] main # Idle /\ main.pc # "waiting" -> main
                         [] main # Idle /\ main.pc = "waiting" /\ granted -> again
                         [] OTHER -> [main EXCEPT !.pc = "unauthorized", !.retried = TRUE]]

DeliverSession(t, s) ==
  LET c == Call(t, s)
  IN  /\ At(t, s, Refreshes \union {"login"}, "answered")
      /\ jar' = IF c.reply.ok THEN CookiesOf(c.reply) ELSE jar
      /\ AfterRefresh(t, s, c.reply.ok)
      /\ IF s = "flight" THEN EndFlight(t, c.reply.ok, CookiesOf(c.reply)) ELSE Put(t, s, Idle)
      /\ UNCHANGED <<server, cache, clock>>

\* An answer to a guarded request: logout clears both cookies, a change of
\* password the refresh cookie.
Deliver(t) ==
  LET c == Call(t, "main")
  IN  /\ At(t, "main", Guarded, "answered")
      /\ CASE c.op = "logout" -> jar' = [refresh |-> 0, access |-> Absent]
           [] c.op = "password" -> jar' = [jar EXCEPT !.refresh = 0]
           [] OTHER -> UNCHANGED jar
      /\ IF c.op = "logout" THEN SetTab(t, "signedOut") ELSE UNCHANGED tab
      /\ Put(t, "main", Idle)
      /\ UNCHANGED <<server, cache, clock>>

\* Refused for good; a logout signs the tab out all the same.
GiveUp(t) ==
  /\ At(t, "main", Guarded, "unauthorized")
  /\ Call(t, "main").retried
  /\ IF Call(t, "main").op = "logout" THEN SetTab(t, "signedOut") ELSE UNCHANGED tab
  /\ Put(t, "main", Idle)
  /\ UNCHANGED <<server, cache, jar, clock>>

TriesAgain(t) == tab[t].attempt < Attempts

\* The request or its answer is lost, at any point of its way.
Lose(t, s) ==
  LET c == Call(t, s)
  IN  /\ c # Idle
      /\ c.pc \notin {"waiting", "unauthorized"}
      /\ CASE c.op = "restore" /\ TriesAgain(t) ->
                 /\ tab' = [tab EXCEPT ![t].attempt = @ + 1]
                 /\ Put(t, s, Sent("restore"))
           [] c.op = "flight" -> EndFlight(t, FALSE, jar) /\ UNCHANGED tab
           [] c.op \in {"silent", "logout"} \/ (c.op = "restore" /\ ~ TriesAgain(t)) ->
                 SetTab(t, "signedOut") /\ Put(t, s, Idle)
           [] OTHER -> Put(t, s, Idle) /\ UNCHANGED tab
      /\ UNCHANGED <<tokens, user, changed, cache, jar, clock>>

\* The page goes: what it had under way is never answered.
Reload(t) ==
  /\ tab[t].state # "closed"
  /\ SetTab(t, "closed")
  /\ call' = [call EXCEPT ![t] = [s \in Slots |-> Idle]]
  /\ UNCHANGED <<tokens, user, changed, cache, jar, clock>>

\* The cookie's maxAge is the life of the token.
AccessExpires ==
  /\ jar.access # Absent
  /\ jar' = [jar EXCEPT !.access = Absent]
  /\ UNCHANGED <<server, cache, tab, call, clock>>

ClockRuns ==
  /\ clock < LastTick
  /\ clock' = clock + 1
  /\ UNCHANGED <<server, cache, jar, tab, call>>

ServerStep(t) ==
  \/ \E s \in Slots : FindToken(t, s) \/ RevokeFamily(t, s) \/ BumpVersion(t, s)
                      \/ Rotate(t, s)
  \/ LoginCompare(t) \/ IssueSession(t)
  \/ NoAccessToken(t) \/ GuardHit(t) \/ GuardRead(t) \/ GuardStore(t)
  \/ ServeApi(t) \/ ServeLogout(t) \/ ServePassword(t)

ClientStep(t) ==
  \/ \E s \in Slots : DeliverSession(t, s) \/ Lose(t, s)
  \/ JoinFlight(t) \/ Deliver(t) \/ GiveUp(t)

Begin(t) ==
  \/ Open(t) \/ SubmitLogin(t) \/ SilentRefresh(t)
  \/ \E op \in Guarded : Use(t, op)

SessionsNext ==
  \/ \E t \in Tabs : ServerStep(t) \/ ClientStep(t) \/ Begin(t) \/ Reload(t)
  \/ Deactivate \/ AccessExpires \/ ClockRuns

SessionsSpec == SessionsInit /\ [][SessionsNext]_sessionsVars

-----------------------------------------------------------------------------
(* Properties. *)

UserRows == [tv : 0..MaxChanges, active : BOOLEAN, at : 0..LastTick]
Version == 0..MaxChanges \union {Absent}
Replies == [ok : BOOLEAN, token : 0..MaxTokens, access : Version]
Places == {"sent", "found", "replayed", "familyRevoked", "passed", "reading",
           "admitted", "unauthorized", "waiting", "answered"}
Calls == [op : Refreshes \union Guarded \union {"login"}, pc : Places,
          token : 0..MaxTokens, access : Version, version : Version,
          row : UserRows \union {Absent}, reply : Replies \union {Absent}, retried : BOOLEAN]

\* The rows, the cookies and the requests have their types; cookies and
\* requests name only tokens that exist.
SessionsTypeOK ==
  /\ tokens \in Seq([family : 1..MaxTokens, parent : 0..MaxTokens, revoked : BOOLEAN])
  /\ Len(tokens) <= MaxTokens
  /\ user \in [tv : 0..MaxChanges, active : BOOLEAN]
  /\ cache \in [tv : 0..MaxChanges, active : BOOLEAN, until : Nat, took : Int]
               \union {Absent}
  /\ jar \in [refresh : 0..Len(tokens), access : Version]
  /\ tab \in [Tabs -> [state : {"closed", "loading", "signedIn", "signedOut"},
                      attempt : 0..Attempts]]
  /\ call \in [Tabs -> [Slots -> Calls \union {Idle}]]
  /\ changed \in 0..LastTick \union {Absent}
  /\ clock \in 0..LastTick
  /\ \A t \in Tabs, s \in Slots :
       call[t][s] # Idle => call[t][s].token \in 0..Len(tokens)

\* However many refreshes of one token overlap (two tabs, the timer and the
\* shared refresh, a retry after a lost answer), the tokens of a family are a
\* line: a token is replaced at most once, by one token of its own family, and
\* at most one of the family is live.
RotationIsALine ==
  /\ \A j, k \in DOMAIN tokens :
       /\ tokens[j].parent = tokens[k].parent /\ tokens[j].parent # 0 => j = k
       /\ Live(j) /\ Live(k) /\ tokens[j].family = tokens[k].family => j = k
  /\ \A k \in DOMAIN tokens :
       tokens[k].parent # 0 =>
         /\ ~ Live(tokens[k].parent)
         /\ tokens[tokens[k].parent].family = tokens[k].family

\* The guard works with a users row for no longer than the TTL, and the time
\* the row was on its way, after it changed (password, replay, deactivation):
\* even when the change fell between the read of the row and its storing, from
\* which the TTL is counted.
CacheTtlBoundsStaleness ==
  cache # Absent /\ (cache.tv # user.tv \/ cache.active # user.active) =>
    cache.until <= changed + CacheTtl + cache.took

=============================================================================
