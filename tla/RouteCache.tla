----------------------------- MODULE RouteCache -----------------------------
(***************************************************************************)
(* The routing table of sms2wechat-v7.c: g_cache maps a tenant IP to the   *)
(* chatrooms of its tenant.  The receive thread looks an IP up             *)
(* (lookup_wxid_by_tenantip) and, on a miss, asks the database and adds    *)
(* what it learned row by row (query_db_by_ip).  CacheRefreshThreadProc    *)
(* builds a new table without the lock, swaps it in under the write lock   *)
(* and frees the old one after the unlock (cache_full_refresh).            *)
(*                                                                         *)
(* What runs under g_cache_lock is one step, except the search of a hit,   *)
(* which is two: the read lock is held in between.                         *)
(***************************************************************************)
EXTENDS Naturals, Sequences, Functions

CONSTANTS
    Ips,
    Groups,     \* chatroom wxids
    MaxWxid,    \* MAX_WXID_PER_QUERY, 64 in the code
    Tables,     \* addresses a hash table may have
    Null,       \* the null pointer
    MaxRepeats, \* bound: rows of the join that name the same chatroom for an ip
    MaxChanges  \* bound: how often the routes change in the database

ASSUME NullAssumption == Null \notin Tables
ASSUME NumbersAssumption ==
    MaxWxid \in Nat \ {0} /\ MaxRepeats \in Nat \ {0} /\ MaxChanges \in Nat

VARIABLES
    db,      \* the join of paas_cluster_tenantname_ip and wechat_chatroom: for
             \* each ip how many rows name each chatroom
    past,    \* history: the sets of chatrooms db[ip] has named
    changes, \* how often the routes changed
    live,    \* addresses of the tables allocated and not freed
    entry,   \* the wxid_list of each ip in each table
    cache,   \* g_cache
    rx,      \* the receive thread: where it stands, what it holds
    rf,      \* the refresh thread
    raced    \* history: g_cache was swapped in while a miss was being filled

vars == <<db, past, changes, live, entry, cache, rx, rf, raced>>

NoEntries == [ip \in Ips |-> {}]

\* Tenant rows are plain INSERTs, so a row may be there more than once.
Joins == [Groups -> 0..MaxRepeats]
NoRows == [g \in Groups |-> 0]
OneLess(join, g) == [join EXCEPT ![g] = @ - 1]
Rooms(join) == {g \in Groups : join[g] > 0}

\* What a wxid_result_t holds.
Results == UNION {[1..n -> Groups] : n \in 0..MaxWxid}
Noted(list, g) == IF Len(list) < MaxWxid THEN Append(list, g) ELSE list

\* Between two lookups.
Idle == [pc |-> "idle", ip |-> Null, tab |-> Null, rest |-> NoRows, result |-> <<>>]
Asleep == [pc |-> "sleep", new |-> Null, old |-> Null]

Cached(ip) == IF cache = Null THEN {} ELSE entry[cache][ip]

\* copy_entry_to_result: the chatrooms one after the other, all or MaxWxid.
Copies(groups) ==
    {list \in Results :
        /\ \A i, j \in DOMAIN list : list[i] = list[j] => i = j
        /\ Range(list) \subseteq groups
        /\ Range(list) = groups \/ Len(list) = MaxWxid}

\* hash_table_insert, row by row, names a chatroom once.
Loaded == [ip \in Ips |-> Rooms(db[ip])]

\* The load in CoreBusinessInit, before any thread: it fails or it works.
Init ==
    /\ db \in [Ips -> Joins]
    /\ past = [ip \in Ips |-> {Rooms(db[ip])}]
    /\ changes = 0
    /\ \/ /\ cache = Null
          /\ live = {}
          /\ entry = [t \in Tables |-> NoEntries]
       \/ \E t \in Tables :
            /\ cache = t
            /\ live = {t}
            /\ entry = [u \in Tables |-> IF u = t THEN Loaded ELSE NoEntries]
    /\ rx = Idle
    /\ rf = Asleep
    /\ raced = FALSE

-----------------------------------------------------------------------------
\* An operator, or sms_route_sync.py, changes the routes of an ip.
ChangeRoutes(ip, join) ==
    /\ changes < MaxChanges
    /\ join # db[ip]
    /\ changes' = changes + 1
    /\ db' = [db EXCEPT ![ip] = join]
    /\ past' = [past EXCEPT ![ip] = @ \cup {Rooms(join)}]
    /\ UNCHANGED <<live, entry, cache, rx, rf, raced>>

-----------------------------------------------------------------------------
(* lookup_wxid_by_tenantip and query_db_by_ip                              *)

\* pthread_rwlock_rdlock, then g_cache is read.
Lookup(ip) ==
    /\ rx.pc = "idle"
    /\ rx' = [Idle EXCEPT !.pc = "read", !.ip = ip, !.tab = cache]
    /\ UNCHANGED <<db, past, changes, live, entry, cache, rf, raced>>

\* bucket_find_entry and copy_entry_to_result, then the unlock.  An empty
\* result is a miss.
EndRead ==
    /\ rx.pc = "read"
    /\ LET found == IF rx.tab = Null THEN {} ELSE entry[rx.tab][rx.ip] IN
       \E result \in Copies(found) :
           rx' = [rx EXCEPT !.tab = Null, !.result = result,
                            !.pc = IF result = <<>> THEN "miss" ELSE "serve"]
    /\ UNCHANGED <<db, past, changes, live, entry, cache, rf, raced>>

\* The SELECT for one ip.
Query ==
    /\ rx.pc = "miss"
    /\ rx' = [rx EXCEPT !.pc = "fill", !.rest = db[rx.ip]]
    /\ UNCHANGED <<db, past, changes, live, entry, cache, rf, raced>>

\* No connection, or the query fails: the caller falls back.
QueryFails ==
    /\ rx.pc = "miss"
    /\ rx' = [rx EXCEPT !.pc = "serve"]
    /\ UNCHANGED <<db, past, changes, live, entry, cache, rf, raced>>

\* One row: it goes to the result if there is room, named there or not, and to
\* the cache, by hash_table_insert under the write lock.
Mut_FillRow(g) ==
    /\ rx.pc = "fill"
    /\ rx.rest[g] > 0
    /\ rx' = [rx EXCEPT !.rest = OneLess(@, g), !.result = Noted(@, g)]
    /\ entry' = IF cache = Null THEN entry
                ELSE [entry EXCEPT ![cache] = [ip \in Ips |-> @[ip] \cup {g}]]
    /\ UNCHANGED <<db, past, changes, live, cache, rf, raced>>
MutCut_FillRow(g) ==
    /\ rx.pc = "fill"
    /\ rx.rest[g] > 0
    /\ rx' = [rx EXCEPT !.rest = OneLess(@, g), !.result = Noted(@, g)]
    /\ entry' = IF cache = Null \/ Len(rx.result) = MaxWxid THEN entry
                ELSE [entry EXCEPT ![cache][rx.ip] = @ \cup {g}]
    /\ UNCHANGED <<db, past, changes, live, cache, rf, raced>>
FillRow(g) ==
    /\ rx.pc = "fill"
    /\ rx.rest[g] > 0
    /\ rx' = [rx EXCEPT !.rest = OneLess(@, g), !.result = Noted(@, g)]
    /\ entry' = IF cache = Null THEN entry
                ELSE [entry EXCEPT ![cache][rx.ip] = @ \cup {g}]
    /\ UNCHANGED <<db, past, changes, live, cache, rf, raced>>

EndFill ==
    /\ rx.pc = "fill"
    /\ rx.rest = NoRows
    /\ rx' = [rx EXCEPT !.pc = "serve"]
    /\ UNCHANGED <<db, past, changes, live, entry, cache, rf, raced>>

\* dispatch_decoded_sms takes the result, or the fallback for an empty one.
Return ==
    /\ rx.pc = "serve"
    /\ rx' = Idle
    /\ UNCHANGED <<db, past, changes, live, entry, cache, rf, raced>>

-----------------------------------------------------------------------------
(* cache_full_refresh; a failed load returns and changes nothing           *)

\* calloc may hand out any address that is not in use.
Mut_Load ==
    /\ rf.pc = "sleep"
    /\ \E t \in Tables \ live :
         /\ live' = live \cup {t}
         /\ entry' = [entry EXCEPT ![t] = [ip \in Ips |-> Loaded[ip] \cup Cached(ip)]]
         /\ rf' = [Asleep EXCEPT !.pc = "swap", !.new = t]
    /\ UNCHANGED <<db, past, changes, cache, rx, raced>>
Load ==
    /\ rf.pc = "sleep"
    /\ \E t \in Tables \ live :
         /\ live' = live \cup {t}
         /\ entry' = [entry EXCEPT ![t] = Loaded]
         /\ rf' = [Asleep EXCEPT !.pc = "swap", !.new = t]
    /\ UNCHANGED <<db, past, changes, cache, rx, raced>>

\* Under the write lock, so never while the receive thread reads.
Mut_Swap ==
    /\ rf.pc = "swap"
    /\ cache' = rf.new
    /\ rf' = [Asleep EXCEPT !.pc = "free", !.old = cache]
    /\ raced' = (rx.pc \in {"miss", "fill"})
    /\ UNCHANGED <<db, past, changes, live, entry, rx>>
Swap ==
    /\ rf.pc = "swap"
    /\ rx.pc # "read"
    /\ cache' = rf.new
    /\ rf' = [Asleep EXCEPT !.pc = "free", !.old = cache]
    /\ raced' = (rx.pc \in {"miss", "fill"})
    /\ UNCHANGED <<db, past, changes, live, entry, rx>>

\* hash_table_free, outside the lock.
Free ==
    /\ rf.pc = "free"
    /\ live' = live \ {rf.old}
    /\ entry' = IF rf.old = Null THEN entry ELSE [entry EXCEPT ![rf.old] = NoEntries]
    /\ rf' = Asleep
    /\ UNCHANGED <<db, past, changes, cache, rx, raced>>

-----------------------------------------------------------------------------
Receive == \/ \E ip \in Ips : Lookup(ip)
           \/ EndRead \/ Query \/ QueryFails
           \/ (\E g \in Groups : FillRow(g)) \/ EndFill \/ Return
Refresh == Load \/ Swap \/ Free

Next == Receive \/ Refresh \/ \E ip \in Ips, join \in Joins : ChangeRoutes(ip, join)

Spec == Init /\ [][Next]_vars

\* The refresh thread wakes up every cache_refresh_interval_sec, a load works
\* in the end, a search gives the read lock back, and the write lock is granted
\* although the other thread keeps looking IPs up.
FairSpec ==
    /\ Spec
    /\ WF_vars(Load) /\ SF_vars(Swap) /\ WF_vars(Free)
    /\ WF_vars(EndRead)

-----------------------------------------------------------------------------
\* Every variable has its type; a result fits into wxid_result_t.
TypeOK ==
    /\ db \in [Ips -> Joins]
    /\ past \in [Ips -> SUBSET SUBSET Groups]
    /\ changes \in 0..MaxChanges
    /\ live \subseteq Tables
    /\ entry \in [Tables -> [Ips -> SUBSET Groups]]
    /\ cache \in Tables \cup {Null}
    /\ rx \in [pc : {"idle", "read", "miss", "fill", "serve"}, ip : Ips \cup {Null},
               tab : Tables \cup {Null}, rest : Joins, result : Results]
    /\ rf \in [pc : {"sleep", "swap", "free"}, new : Tables \cup {Null},
               old : Tables \cup {Null}]
    /\ raced \in BOOLEAN

\* No thread holds a table that was freed, no table is lost, and the one
\* being built or freed is nobody else's (lines 600-603, 643-646).
TablesAreOwned ==
    /\ live = {cache, rf.new, rf.old} \ {Null}
    /\ cache # Null => cache \notin {rf.new, rf.old}
    /\ rx.pc = "read" => rx.tab = cache
    /\ rf.pc = "sleep" => rf = Asleep
    /\ rf.pc = "swap" => rf.new # Null /\ rf.old = Null
    /\ rf.pc = "free" => rf.new = Null

\* A lookup that is under way knows what it looks for.
LookupHolds ==
    /\ rx.pc # "idle" => rx.ip \in Ips
    /\ rx.pc = "miss" => rx.result = <<>>
    /\ rx.pc # "fill" => rx.rest = NoRows

EverRouted(ip) == UNION past[ip]

\* A chatroom the cache names for an ip, or a lookup serves, was a route of
\* that very ip in the database (lines 506-527, 632-634).
OnlyRoutes ==
    /\ \A t \in Tables, ip \in Ips : entry[t][ip] \subseteq EverRouted(ip)
    /\ rx.pc # "idle" => Rooms(rx.rest) \cup Range(rx.result) \subseteq EverRouted(rx.ip)

\* The rows of one query or one load enter together: an entry is a value the
\* routes of the ip had at one moment, once the lookup that fills it is over,
\* unless a refresh swapped the table in the middle of that lookup (632-634
\* against 600-602).
EntriesAreWhole ==
    \A ip \in Ips :
        \/ raced
        \/ rx.pc = "fill" /\ rx.ip = ip
        \/ Cached(ip) = {}
        \/ Cached(ip) \in past[ip]

\* What EntriesAreWhole rests on: a table that waits to be swapped in holds
\* one value per ip; the lookup that fills an ip found no entry, so with no
\* swap in between the entry and the rows still to come make up one value.
FillIsWhole ==
    /\ \A ip \in Ips : Rooms(db[ip]) \in past[ip]
    /\ rf.pc = "swap" => \A ip \in Ips : entry[rf.new][ip] \in past[ip]
    /\ ~raced /\ rx.pc = "miss" => Cached(rx.ip) = {}
    /\ ~raced /\ rx.pc = "fill" /\ cache # Null =>
         Cached(rx.ip) \cup Rooms(rx.rest) \in past[rx.ip]

\* The inductive invariant of RouteCacheProofs.
IInv == TypeOK /\ TablesAreOwned /\ LookupHolds /\ OnlyRoutes /\ EntriesAreWhole /\ FillIsWhole

\* When the chatrooms of an ip stop changing the cache ends up with just these,
\* whatever lookups did meanwhile: stale and partial entries are replaced.
Converges ==
    \A ip \in Ips : \A s \in SUBSET Groups :
        <>[](Rooms(db[ip]) = s) => <>[](Cached(ip) = s)
=============================================================================
