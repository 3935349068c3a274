------------------------------- MODULE Share -------------------------------
(***************************************************************************)
(* Share links: internal/share/share.go, internal/server/shares.go, and    *)
(* the way every file operation takes: reroute, a helper with the user's   *)
(* groups, the kernel.  (How the store keeps its file with other replicas  *)
(* is module StateFile's; here one process serves.)                        *)
(*                                                                         *)
(* A link is a token; whoever has it fetches the file, opened as the       *)
(* link's owner.  Files are told apart by the team folder they are in.     *)
(***************************************************************************)
EXTENDS Teams

CONSTANTS
    Tokens, Browsers,
    DefaultLifetime, MaxLifetime,    \* of a link
    CredsTTL          \* helperpool's: how long a helper's groups are trusted

ASSUME ShareConstants ==
    /\ MaxLifetime \in Nat \ {0} /\ DefaultLifetime \in 1 .. MaxLifetime
    /\ CredsTTL \in Nat \ {0}

VARIABLES
    links,     \* per token: the link, or None
    minted,    \* the tokens that were issued
    secret,    \* unlockSecret of this process
    jar,       \* per browser: unlock cookies, [token, secret]
    fetch,     \* per browser: the request for /s/<token> under way
    creds,     \* per user: the groups of the helper, and when they were read
    opened,    \* ghost: the last file operation
    proved     \* ghost, per browser: tokens it has given the password of

shareVars == <<links, minted, secret, jar, fetch, creds, opened, proved>>
web == <<links, minted, secret, jar, fetch, proved>>

IdleFetch == [pc |-> "idle", token |-> None, try |-> "get", link |-> None,
              alive |-> FALSE]

\* A mutant of Expired: the last moment counts as gone, and the next one not.
ExpiredAt(l) == now = l.expires
Expired(l) == now > l.expires

Live(k) == links[k] # None /\ ~Expired(links[k])

---------------------------------------------------------------------------
(* vfs.do: reroute, acquire a helper, ask the kernel.                      *)

GroupsOf(s, u) == {g \in Groups : u \in s.members[g]}

\* A mutant of Trusted: the groups a helper began with are kept.
TrustedForever(u) == creds[u] # None
Trusted(u) == creds[u] # None /\ now - creds[u].at < CredsTTL

\* Pool.Acquire: the helper is new when there was none (idle too long, evicted)
\* or its groups had changed when they were read again.
Acquire(u, gs) ==
    \/ Trusted(u) /\ gs = creds[u].groups /\ UNCHANGED creds
    \/ /\ gs = GroupsOf(sys, u)
       /\ creds' = [creds EXCEPT ![u] = [groups |-> gs, at |-> now]]

\* A mutant of Identified: the file is opened as whoever asks the server to.
IdentifiedAsAny(u) == Users
Identified(u) == {u}

\* One file operation of u in g's folder; ok: the kernel let it.
Operation(u, g, ok) ==
    \E d \in {decls.decl} \cup StoodSince(now - ReadTime), missed \in BOOLEAN, v \in Identified(u) :
    \E gs \in {GroupsOf(sys, v)} \cup (IF creds[v] = None THEN {} ELSE {creds[v].groups}) :
        /\ CachedDeclaration(d, missed)
        /\ Acquire(v, gs)
        /\ ok = KernelReads(gs, g, Route(d, v, g))
        /\ opened' = [user |-> u, team |-> g, via |-> Route(d, v, g),
                      missed |-> missed, at |-> now]
        /\ UNCHANGED <<roster, sys, requests, watch>>

Visit(u, g) ==
    /\ \E ok \in BOOLEAN : Operation(u, g, ok)
    /\ UNCHANGED web

---------------------------------------------------------------------------
(* The owner's side.                                                       *)

\* handleShareCreate: stat and open as the user, then Create.
Lifetime(asked) ==
    IF asked <= 0 THEN DefaultLifetime
    ELSE IF asked > MaxLifetime THEN MaxLifetime ELSE asked

CreateLink(k, u, g, asked, pw) ==
    /\ k \notin minted
    /\ Operation(u, g, TRUE)
    /\ minted' = minted \cup {k}
    /\ links' = [links EXCEPT ![k] = [owner |-> u, team |-> g, pw |-> pw,
                                      expires |-> now + Lifetime(asked)]]
    /\ UNCHANGED <<secret, jar, fetch, proved>>

still == <<roster, sys, requests, watch, decls, creds, opened>>

\* Revoke: the owner's only; for anyone else there is no such link.
Revoke(u, k) ==
    /\ links[k] # None /\ links[k].owner = u
    /\ links' = [links EXCEPT ![k] = None]
    /\ UNCHANGED <<minted, secret, jar, fetch, proved, still>>

Unexpired == [k \in Tokens |-> IF Live(k) THEN links[k] ELSE None]

Sweep ==
    /\ links' = Unexpired /\ links' # links
    /\ UNCHANGED <<minted, secret, jar, fetch, proved, still>>

---------------------------------------------------------------------------
(* The public side: GET or POST /s/<token>.                                *)

Ended == {"idle", "redirected", "refused", "served"}

Request(b, k, try) ==
    /\ fetch[b].pc \in Ended /\ k \in minted
    /\ fetch' = [fetch EXCEPT ![b] = [IdleFetch EXCEPT !.pc = "resolve",
                     !.token = k, !.try = try,
                     !.alive = links[k] # None /\ now <= links[k].expires]]
    /\ UNCHANGED <<links, minted, secret, jar, proved, still>>

FetchAt(b, pc) == fetch[b].pc = pc
FetchTo(b, pc) == fetch' = [fetch EXCEPT ![b].pc = pc]

\* Store.Resolve, and what handleSharePublic makes of it.
NoSuchLink(b) ==
    LET k == fetch[b].token IN
    /\ FetchAt(b, "resolve") /\ ~Live(k)
    /\ links' = [links EXCEPT ![k] = None]
    /\ FetchTo(b, "refused")
    /\ UNCHANGED <<minted, secret, jar, proved, still>>

NeedsPassword(b) ==
    LET k == fetch[b].token IN
    /\ FetchAt(b, "resolve") /\ Live(k)
    /\ links[k].pw /\ fetch[b].try # "right"
    /\ FetchTo(b, "cookie")
    /\ UNCHANGED <<links, minted, secret, jar, proved, still>>

\* The password was right: the browser is given the cookie and sent back.
Unlock(b) ==
    LET k == fetch[b].token IN
    /\ FetchAt(b, "resolve") /\ Live(k)
    /\ links[k].pw /\ fetch[b].try = "right"
    /\ jar' = [jar EXCEPT ![b] = @ \cup {<<k, secret>>}]
    /\ proved' = [proved EXCEPT ![b] = @ \cup {k}]
    /\ FetchTo(b, "redirected")
    /\ UNCHANGED <<links, minted, secret, still>>

Resolved(b) ==
    LET k == fetch[b].token IN
    /\ FetchAt(b, "resolve") /\ Live(k) /\ ~links[k].pw
    /\ fetch' = [fetch EXCEPT ![b].pc = "stat", ![b].link = links[k]]
    /\ UNCHANGED <<links, minted, secret, jar, proved, still>>

\* A mutant of HasUnlock: the cookie is not for one link.
HasAnyUnlock(b) == \E c \in jar[b] : c[2] = secret
HasUnlock(b) == <<fetch[b].token, secret>> \in jar[b]

\* hasUnlock, then Get, which looks at the expiry but not at the password.
CookieOpens(b) ==
    LET k == fetch[b].token
        opens == HasUnlock(b) /\ Live(k)
    IN  /\ FetchAt(b, "cookie")
        /\ fetch' = [fetch EXCEPT ![b].pc = IF opens THEN "stat" ELSE "refused",
                                  ![b].link = IF opens THEN links[k] ELSE None]
        /\ UNCHANGED <<links, minted, secret, jar, proved, still>>

\* serveShared, as the owner.
ServeStep(b, from, to) ==
    /\ FetchAt(b, from)
    /\ \E ok \in BOOLEAN :
          /\ Operation(fetch[b].link.owner, fetch[b].link.team, ok)
          /\ FetchTo(b, IF ok THEN to ELSE "refused")
    /\ UNCHANGED <<links, minted, secret, jar, proved>>

FetchStep(b) ==
    \/ NoSuchLink(b) \/ NeedsPassword(b) \/ Unlock(b) \/ Resolved(b)
    \/ CookieOpens(b)
    \/ ServeStep(b, "stat", "open") \/ ServeStep(b, "open", "served")

ShareInit ==
    /\ links = [k \in Tokens |-> None]
    /\ minted = {}
    /\ secret = 1
    /\ jar = [b \in Browsers |-> {}]
    /\ fetch = [b \in Browsers |-> IdleFetch]
    /\ creds = [u \in Users |-> None]
    /\ opened = [user |-> None, team |-> None, via |-> None, missed |-> FALSE, at |-> 0]
    /\ proved = [b \in Browsers |-> {}]
=============================================================================
