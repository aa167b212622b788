-------------------------- MODULE AuthConnections --------------------------
(***************************************************************************)
(* Logged-in users: the HTTP_CONNECTION records of auth.c, on a doubly     *)
(* linked ready list and a singly linked free list, which requests         *)
(* reference while they run, which an administrator revokes and which      *)
(* process_requests sweeps once per second for idle ones.                  *)
(*                                                                         *)
(* The lists are modelled with their pointers, because the sweep frees     *)
(* nodes while it follows them.  A node keeps pointers into the account    *)
(* table, so the user it stands for is looked up there whenever it is used. *)
(* A node that was freed by a logout and is taken or freed again while     *)
(* requests still refer to it belongs to two users (confused); behaviours  *)
(* are followed up to there.                                               *)
(***************************************************************************)
EXTENDS Integers, FiniteSets, FiniteSetsExt

CONSTANTS
  Nodes,           \* HTTP_CONNECTION structures malloc can deliver
  NULL,
  Requests,        \* request structures
  Names, Passwds,  \* of users; "" is a password and no name
  ACOUNT_NUM,      \* slots of the account table
  PROTECTED,       \* slots that cannot be deleted: 1, with CONFIG_BRAND_DLINK 2
  Addrs,           \* client addresses
  MAX_CONNECTION,  \* 10
  MAX_DRIFT,       \* bound of the model: connection_counter stops falling at -MAX_DRIFT
  MAX_COUNT        \* bound of the model: a request is checked again while the counter
                   \* of its connection is below MAX_COUNT

ASSUME NodesAssumption == IsFiniteSet(Nodes) /\ NULL \notin Nodes
ASSUME RequestsAssumption == IsFiniteSet(Requests)
ASSUME UsersAssumption == "" \notin Names /\ "" \in Passwds
ASSUME SlotsAssumption ==
  ACOUNT_NUM \in Nat \ {0} /\ PROTECTED \in Nat \ {0} /\ NULL \notin 0 .. ACOUNT_NUM - 1
ASSUME CounterAssumption == MAX_CONNECTION \in Nat /\ MAX_DRIFT \in Nat /\ MAX_COUNT \in Nat

VARIABLES
  connect_ready, connect_free, connect_guest,  \* list heads and the guest's node
  next, last,           \* the link fields
  conn,                 \* the other fields of a node
  heap,                 \* nodes malloc'ed so far
  connection_counter,
  connect,              \* req->connect
  accounts,             \* the account table, slot by slot
  user_auth_mode,       \* sys_info->user_auth_mode
  pc,                   \* "serve", "lookup" in check_user, "sweep" in the sweep, "crash"
  call,                 \* the arguments of check_user
  at,                   \* the sweep's loop variable
  orphans,              \* history: requests whose connection a logout has freed
  confused              \* history: such a connection was taken or freed again

lists == <<connect_ready, connect_free, connect_guest, next, last, heap, connection_counter, confused>>
config == <<accounts, user_auth_mode>>
vars == <<lists, conn, connect, config, pc, call, at, orphans>>

Null(S) == S \cup {NULL}
NoCall == <<>>

Slots == 0 .. ACOUNT_NUM - 1
Users == [name: Names, passwd: Passwds]
Blank == [name |-> "", passwd |-> ""]            \* an erased account
Guest == [name |-> "guest", passwd |-> ""]       \* user_guest, in no slot
Credentials == Users \cup {Blank, Guest}         \* what a client may send

(* slot: the account user_name, passwd and auth point into, NULL for       *)
(* user_guest; expired: idle for longer than HTTP_CONNECTION_TIMEOUT       *)
Connection == [slot: Null(Slots), ip: Null(Addrs), counter: Int,
               expired: BOOLEAN, revoke: BOOLEAN]
Garbage == [slot |-> NULL, ip |-> NULL, counter |-> 0, expired |-> FALSE, revoke |-> FALSE]

Init ==
  /\ connect_ready = NULL /\ connect_free = NULL /\ connect_guest = NULL
  /\ next = [c \in Nodes |-> NULL] /\ last = [c \in Nodes |-> NULL]
  /\ conn = [c \in Nodes |-> Garbage]
  /\ heap = {} /\ connection_counter = 0
  /\ connect = [r \in Requests |-> NULL]
  /\ accounts \in [Slots -> Users \cup {Blank}] /\ accounts[0] # Blank
  /\ user_auth_mode \in {0, 1}
  /\ pc = "serve" /\ call = NoCall /\ at = NULL
  /\ orphans = {} /\ confused = FALSE

-----------------------------------------------------------------------------
(* The lists                                                               *)

(* the k-th node a walk along the next pointers from h meets *)
Walk(h) ==
  LET step[k \in 0 .. Cardinality(Nodes)] ==
        IF k = 0 THEN h
        ELSE IF step[k - 1] = NULL THEN NULL ELSE next[step[k - 1]]
  IN  step
OnList(h) == {Walk(h)[k] : k \in 0 .. Cardinality(Nodes)} \ {NULL}
Ends(h) == Walk(h)[Cardinality(Nodes)] = NULL

(* the first ready node that satisfies P, or NULL *)
FirstReady(P(_)) ==
  LET w == Walk(connect_ready)
      hits == {k \in DOMAIN w : w[k] # NULL /\ P(w[k])}
  IN  IF hits = {} THEN NULL ELSE w[Min(hits)]

(* requests that have logged out, or share a connection with one that has, *)
(* still refer to c                                                         *)
Orphaned(c) == \E r \in orphans : connect[r] = c

(* a node comes from the free list, or from malloc while may is true, and   *)
(* becomes the head of the ready list                                       *)
TakeNode(c, may) ==
  /\ \/ /\ connect_free # NULL /\ c = connect_free
        /\ connect_free' = next[c] /\ UNCHANGED <<heap, connection_counter>>
     \/ /\ connect_free = NULL /\ may
        /\ c \in Nodes \ heap /\ heap' = heap \cup {c}
        /\ connection_counter' = connection_counter + 1
        /\ UNCHANGED connect_free
  /\ next' = [next EXCEPT ![c] = connect_ready]
  /\ last' = [d \in Nodes |-> IF d = c THEN NULL
                              ELSE IF d = connect_ready THEN c ELSE last[d]]
  /\ connect_ready' = c /\ confused' = Orphaned(c)

AllocOneMore(c) == TakeNode(c, connection_counter <= MAX_CONNECTION)

(* alloc_connection returns c *)
alloc_connection(c) == TakeNode(c, connection_counter < MAX_CONNECTION)

(* alloc_connection returns NULL *)
NoConnection ==
  /\ connect_free = NULL
  /\ connection_counter >= MAX_CONNECTION \/ Nodes = heap

(* c is pushed on the free list; mirror is what becomes of the last fields *)
PutNode(c, unlinked, mirror) ==
  /\ connect_guest' = IF connect_guest = c THEN NULL ELSE connect_guest
  /\ connect_ready' = IF connect_ready = c THEN next[c] ELSE connect_ready
  /\ last' = mirror
  /\ next' = [unlinked EXCEPT ![c] = connect_free]
  /\ connect_free' = c /\ confused' = Orphaned(c)
  /\ connection_counter' =
       IF connection_counter = -MAX_DRIFT THEN connection_counter ELSE connection_counter - 1
  /\ UNCHANGED heap

Unlinked(c) == IF last[c] # NULL THEN [next EXCEPT ![last[c]] = next[c]] ELSE next

FreeForgettingLast(c) == PutNode(c, Unlinked(c), last)

(* unlink c, wherever its pointers say it is, and push it on the free list *)
free_connection(c) ==
  LET after == Unlinked(c)[c]
  IN  PutNode(c, Unlinked(c), IF after # NULL THEN [last EXCEPT ![after] = last[c]] ELSE last)

-----------------------------------------------------------------------------
(* check_user, in the two steps its two allocations make                   *)

(* the user c stands for while the account table is acc *)
UserIn(acc, c) == IF conn[c].slot = NULL THEN Guest ELSE acc[conn[c].slot]

(* Where nobody has to log in, guest gets a node first; its address and    *)
(* time are whatever the memory held.  Nothing asks whether the request    *)
(* has a connection: a POST without a version is checked twice, as guest   *)
(* after its first line and with its Authorization after the header, and   *)
(* keeps the second connection only, while both are counted.               *)
CheckUser(r, u, a) ==
  /\ pc = "serve" /\ (connect[r] # NULL => conn[connect[r]].counter < MAX_COUNT)
  /\ UNCHANGED <<connect, config, at, orphans>>
  /\ \/ /\ connect_guest = NULL /\ user_auth_mode = 0 /\ NoConnection
        /\ UNCHANGED <<lists, conn, pc, call>>
     \/ /\ connect_guest = NULL /\ user_auth_mode = 0
        /\ \E c \in Nodes, old \in BOOLEAN :
             /\ alloc_connection(c) /\ connect_guest' = c
             /\ conn' = [conn EXCEPT ![c] = [@ EXCEPT !.slot = NULL, !.counter = 0,
                                                      !.expired = old, !.revoke = FALSE]]
        /\ pc' = "lookup" /\ call' = <<r, u, a>>
     \/ /\ connect_guest # NULL \/ user_auth_mode # 0
        /\ pc' = "lookup" /\ call' = <<r, u, a>> /\ UNCHANGED <<lists, conn>>

LoginForgetful(c, n) ==
  /\ connect' = [connect EXCEPT ![call[1]] = c] /\ orphans' = orphans \ {call[1]}
  /\ conn' = [conn EXCEPT ![c].expired = FALSE]

(* the request call[1] refers to c from now on, its n-th user *)
Login(c, n) ==
  /\ connect' = [connect EXCEPT ![call[1]] = c] /\ orphans' = orphans \ {call[1]}
  /\ conn' = [conn EXCEPT ![c].expired = FALSE, ![c].counter = n]

MatchesFresh(c, u, a) ==
  /\ ~conn[c].revoke /\ ~conn[c].expired
  /\ (c = connect_guest \/ conn[c].ip = a) /\ UserIn(accounts, c) = u

(* c is a connection of user u from address a *)
Matches(c, u, a) ==
  /\ ~conn[c].revoke
  /\ (c = connect_guest \/ conn[c].ip = a) /\ UserIn(accounts, c) = u

(* look for a connection of this user from this address, else open one for *)
(* the first account with this name and password, erased accounts included *)
Lookup ==
  LET u == call[2]
      a == call[3]
      mine(c) == Matches(c, u, a)
      found == FirstReady(mine)
      slots == {s \in Slots : accounts[s] = u}
  IN  /\ pc = "lookup" /\ pc' = "serve" /\ call' = NoCall
      /\ \/ /\ found # NULL /\ Login(found, conn[found].counter + 1)
            /\ UNCHANGED lists
         \/ /\ found = NULL /\ slots # {}
            /\ \E c \in Nodes :
                 /\ alloc_connection(c) /\ UNCHANGED connect_guest
                 /\ connect' = [connect EXCEPT ![call[1]] = c] /\ orphans' = orphans \ {call[1]}
                 /\ conn' = [conn EXCEPT ![c] = [slot |-> Min(slots), ip |-> a, counter |-> 1,
                                                 expired |-> FALSE, revoke |-> FALSE]]
         \/ /\ found = NULL /\ (slots = {} \/ NoConnection)     \* 401 or 503
            /\ UNCHANGED <<lists, conn, connect, orphans>>
      /\ UNCHANGED <<config, at>>

-----------------------------------------------------------------------------
(* The other operations                                                    *)

(* free_request: the request lets go of its connection *)
Release(r) ==
  LET c == connect[r] IN
  /\ pc = "serve" /\ c # NULL
  /\ conn' = [conn EXCEPT ![c].counter = @ - 1, ![c].expired = FALSE]
  /\ connect' = [connect EXCEPT ![r] = NULL] /\ orphans' = orphans \ {r}
  /\ UNCHANGED <<lists, config, pc, call, at>>

(* The API command logout: the connection is freed at once, although the    *)
(* request, and others of that user, still refer to it.  The command needs  *)
(* no authority; without a connection its null pointer ends the process.    *)
user_logout(r) ==
  /\ pc = "serve" /\ UNCHANGED <<conn, connect, config, call, at>>
  /\ \/ /\ connect[r] # NULL /\ free_connection(connect[r])
        /\ orphans' = orphans \cup {s \in Requests : connect[s] = connect[r]}
        /\ UNCHANGED pc
     \/ connect[r] = NULL /\ pc' = "crash" /\ UNCHANGED <<lists, orphans>>

(* Commands on accounts come from requests logged in to an account, guest  *)
(* has not the authority.  They write the table in place.                  *)
Commands(r) == pc = "serve" /\ connect[r] # NULL /\ conn[connect[r]].slot # NULL

(* The first account of that name among slots is erased, then              *)
(* revoke_connection marks the first connection that has the name, when    *)
(* those of the erased account have it no longer.                          *)
EraseUser(r, name, slots) ==
  LET hits == {s \in slots : accounts[s].name = name}
      erased == [accounts EXCEPT ![Min(hits)] = Blank]
      named(c) == UserIn(erased, c).name = name
      c == FirstReady(named)
  IN  /\ Commands(r) /\ hits # {} /\ Min(hits) >= PROTECTED
      /\ accounts' = erased /\ user_auth_mode' = 1
      /\ \/ c = NULL /\ UNCHANGED conn
         \/ c # NULL /\ conn' = [conn EXCEPT ![c].revoke = TRUE]
      /\ UNCHANGED <<lists, connect, pc, call, at, orphans>>

(* user_del.cgi looks at as many slots as there are users, deluser at all  *)
uri_user_del(r, name) ==
  EraseUser(r, name, {s \in Slots : s < Cardinality({i \in Slots : accounts[i] # Blank})})
del_user(r, name) == EraseUser(r, name, Slots)

(* A request that names its own user changes the password of its account.  *)
(* Otherwise the user is written into the first of the slots, never 0.     *)
WriteUser(r, u, slots) ==
  LET mine == conn[connect[r]].slot
      own == accounts[mine].name = u.name
      s == IF own THEN mine ELSE Min(slots)
  IN  /\ Commands(r) /\ (own \/ (slots # {} /\ Min(slots) > 0))
      /\ accounts' = [accounts EXCEPT ![s] = u] /\ user_auth_mode' = 1
      /\ UNCHANGED <<lists, conn, connect, pc, call, at, orphans>>

(* user_mod.cgi uses a blank slot although the name exists, adduser the    *)
(* slot with the name                                                      *)
Named(name) == {s \in Slots : accounts[s].name = name}
uri_user_mod(r, u) == WriteUser(r, u, Named(""))
add_user(r, u) == WriteUser(r, u, IF Named(u.name) # {} THEN Named(u.name) ELSE Named(""))

(* time passes: a connection has been idle for too long *)
Expire(c) ==
  /\ pc = "serve" /\ c \in heap /\ ~conn[c].expired
  /\ conn' = [conn EXCEPT ![c].expired = TRUE]
  /\ UNCHANGED <<lists, connect, config, pc, call, at, orphans>>

-----------------------------------------------------------------------------
(* The sweep at the top of process_requests, once per second               *)

SweepBegin ==
  /\ pc = "serve" /\ pc' = "sweep" /\ at' = connect_ready
  /\ UNCHANGED <<lists, conn, connect, config, call, orphans>>

IdleAnyway(c) ==
  /\ c # connect_guest \/ user_auth_mode # 0
  /\ conn[c].expired

Idle(c) ==
  /\ c # connect_guest \/ user_auth_mode # 0
  /\ conn[c].counter = 0 /\ conn[c].expired

(* one iteration; the increment reads the next field free_connection wrote *)
SweepStep ==
  /\ pc = "sweep" /\ at # NULL
  /\ \/ Idle(at) /\ free_connection(at)
     \/ ~Idle(at) /\ UNCHANGED lists
  /\ at' = next'[at]
  /\ UNCHANGED <<conn, connect, config, pc, call, orphans>>

SweepEnd ==
  /\ pc = "sweep" /\ at = NULL /\ pc' = "serve"
  /\ UNCHANGED <<lists, conn, connect, config, call, at, orphans>>

Sweep == SweepStep \/ SweepEnd

Serve ==
  \/ \E r \in Requests, u \in Credentials, a \in Addrs : CheckUser(r, u, a)
  \/ Lookup
  \/ \E r \in Requests : Release(r) \/ user_logout(r)
  \/ \E r \in Requests, name \in Names \cup {""} : uri_user_del(r, name) \/ del_user(r, name)
  \/ \E r \in Requests, u \in Users : uri_user_mod(r, u) \/ add_user(r, u)
  \/ \E c \in Nodes : Expire(c)
Stopped == (confused \/ pc = "crash") /\ UNCHANGED vars

Next == (~confused /\ (Serve \/ SweepBegin \/ Sweep)) \/ Stopped

Spec == Init /\ [][Next]_vars

(* a loop that has been entered goes on *)
FairSpec == Spec /\ WF_vars(~confused /\ Sweep)

-----------------------------------------------------------------------------
(* Properties                                                              *)

(* Every variable keeps its type; every pointer is null or points to a node. *)
TypeOK ==
  /\ {connect_ready, connect_free, connect_guest, at} \subseteq Null(Nodes)
  /\ next \in [Nodes -> Null(Nodes)] /\ last \in [Nodes -> Null(Nodes)]
  /\ conn \in [Nodes -> Connection] /\ heap \subseteq Nodes
  /\ connection_counter \in Int /\ connection_counter <= MAX_CONNECTION
  /\ connect \in [Requests -> Null(Nodes)]
  /\ accounts \in [Slots -> Users \cup {Blank}] /\ user_auth_mode \in {0, 1}
  /\ pc \in {"serve", "lookup", "sweep", "crash"}
  /\ orphans \subseteq Requests /\ confused \in BOOLEAN

(* Whenever requests are served the two lists are intact: they end, share  *)
(* no node, hold every node that was malloc'ed, and the ready list's last  *)
(* pointers mirror its next pointers, although free_connection runs while  *)
(* the sweep follows those pointers and while requests refer to the node.  *)
ListsIntact ==
  pc # "sweep" /\ ~confused =>
    /\ Ends(connect_ready) /\ Ends(connect_free)
    /\ OnList(connect_ready) \cap OnList(connect_free) = {}
    /\ OnList(connect_ready) \cup OnList(connect_free) = heap
    /\ connect_ready # NULL => last[connect_ready] = NULL
    /\ \A c \in OnList(connect_ready) : next[c] # NULL => last[next[c]] = c

(* A connection counts every request that refers to it, and those are on  *)
(* the ready list unless a logout has freed it: the sweep, which frees at  *)
(* zero, never frees a connection under a request.  The counter may be too *)
(* high, after a request that was checked twice; then the sweep keeps it.  *)
CountsRequests ==
  ~confused =>
    /\ \A c \in heap : conn[c].counter >= Cardinality({r \in Requests : connect[r] = c})
    /\ pc # "sweep" => \A r \in Requests :
         connect[r] # NULL => connect[r] \in OnList(connect_ready) \/ r \in orphans

(* While a request refers to a node, that is not given to another account  *)
(* or address, unless a logout has freed it.  The account is all that is   *)
(* stable: user_del.cgi may erase it under the request and user_mod.cgi    *)
(* write another user into it.                                             *)
AccountStable ==
  [][\A r \in Requests : LET c == connect[r] IN
       (c # NULL /\ connect'[r] = c /\ ~confused') =>
         conn'[c].slot = conn[c].slot /\ conn'[c].ip = conn[c].ip]_vars

(* check_user opens a connection only if there is none: at most one that   *)
(* is not revoked for an account and an address, and one for guest,        *)
(* whatever users are deleted, renamed or added while connections last.    *)
OneSession ==
  pc # "sweep" /\ ~confused =>
    /\ \A c, d \in OnList(connect_ready) :
         /\ conn[c].slot # NULL /\ ~conn[c].revoke /\ ~conn[d].revoke
         /\ conn[c].slot = conn[d].slot /\ conn[c].ip = conn[d].ip
         => c = d
    /\ \A c \in OnList(connect_ready) : conn[c].slot = NULL => c = connect_guest

(* process_requests "iterates through the ready queue": the sweep that     *)
(* precedes the iteration comes to an end.                                 *)
SweepTerminates == pc = "sweep" ~> (pc = "serve" \/ confused)
=============================================================================
