-------------------------- MODULE RouteCacheProofs --------------------------
(***************************************************************************)
(* Proofs about RouteCache, for every set of ips, chatrooms and addresses, *)
(* every result size and every number of changes.                          *)
(***************************************************************************)
EXTENDS RouteCache, TLAPS

\* What a lookup copies is a part of what was found.
LEMMA CopiesArePart == \A s : \A r \in Copies(s) : r \in Results /\ Range(r) \subseteq s
BY DEF Copies

\* A copy is empty only if nothing was found.
LEMMA CopyIsEmpty == \A s : <<>> \in Copies(s) => s = {}
<1>1. Range(<<>>) = {}
  BY DEF Range
<1>2. Len(<<>>) # MaxWxid
  BY NumbersAssumption
<1> QED
  BY <1>1, <1>2 DEF Copies

\* An empty result names nothing, and fits.
LEMMA EmptyResult == <<>> \in Results /\ Range(<<>>) = {}
<1>1. <<>> \in [1..0 -> Groups] /\ 0 \in 0..MaxWxid
  BY NumbersAssumption
<1> QED
  BY <1>1 DEF Results, Range

\* A row more goes to the result, or finds it full.
LEMMA ResultGrows ==
    ASSUME NEW r \in Results, NEW g \in Groups
    PROVE  Noted(r, g) \in Results /\ Range(Noted(r, g)) \subseteq Range(r) \cup {g}
<1>1. PICK n \in 0..MaxWxid : r \in [1..n -> Groups]
  BY DEF Results
<1>2. n \in Nat /\ r \in Seq(Groups) /\ Len(r) = n /\ DOMAIN r = 1..n
  BY <1>1, NumbersAssumption
<1>3. CASE n < MaxWxid
  <2>0. Append(r, g) \in Seq(Groups) /\ Len(Append(r, g)) = n + 1
    BY <1>2
  <2>1. Append(r, g) \in [1..(n + 1) -> Groups] /\ n + 1 \in 0..MaxWxid
    <3>1. \A m \in Nat : \A list \in Seq(Groups) : Len(list) = m => list \in [1..m -> Groups]
      OBVIOUS
    <3>2. n + 1 \in Nat /\ n + 1 \in 0..MaxWxid
      BY <1>2, <1>3, NumbersAssumption
    <3> QED
      BY <2>0, <3>1, <3>2
  <2>2. \A k \in 1..(n + 1) : Append(r, g)[k] = g \/ (k \in 1..n /\ Append(r, g)[k] = r[k])
    BY <1>2
  <2>3. Range(Append(r, g)) \subseteq Range(r) \cup {g}
    BY <1>2, <2>1, <2>2 DEF Range
  <2> QED
    BY <1>2, <1>3, <2>1, <2>3 DEF Results, Noted
<1>4. CASE ~(n < MaxWxid)
  BY <1>2, <1>4 DEF Noted
<1> QED
  BY <1>3, <1>4

\* The rows still to come name one chatroom less at most, the one of the row
\* that was taken, and together with it what they named before.
LEMMA RowTaken ==
    ASSUME NEW join \in Joins, NEW g \in Groups, join[g] > 0
    PROVE  /\ OneLess(join, g) \in Joins
           /\ Rooms(OneLess(join, g)) \subseteq Rooms(join)
           /\ Rooms(OneLess(join, g)) \cup {g} = Rooms(join)
<1> DEFINE left == OneLess(join, g)
<1>1. join[g] \in 0..MaxRepeats /\ join[g] - 1 \in 0..MaxRepeats
  BY NumbersAssumption DEF Joins
<1>2. left \in Joins /\ left[g] = join[g] - 1 /\ \A h \in Groups : h # g => left[h] = join[h]
  BY <1>1 DEF Joins, OneLess
<1> QED
  BY <1>1, <1>2 DEF Rooms

\* No rows name no chatroom.
LEMMA NoRowsNoRooms == NoRows \in Joins /\ Rooms(NoRows) = {}
BY NumbersAssumption DEF NoRows, Joins, Rooms

LEMMA InitInvariant == Init => IInv
<1> SUFFICES ASSUME Init PROVE IInv
  OBVIOUS
<1> USE DEF Init, Idle, Asleep, NoEntries
<1>0. /\ NoRows \in Joins /\ Rooms(NoRows) = {}
      /\ <<>> \in Results /\ Range(<<>>) = {}
  BY NoRowsNoRooms, EmptyResult
<1>1. TypeOK
  <2>1. past \in [Ips -> SUBSET SUBSET Groups]
    BY DEF Rooms
  <2>2. entry \in [Tables -> [Ips -> SUBSET Groups]]
    BY DEF Loaded, Rooms
  <2>3. changes \in 0..MaxChanges
    BY NumbersAssumption
  <2> QED
    BY <1>0, <2>1, <2>2, <2>3 DEF TypeOK
<1>2. TablesAreOwned
  BY NullAssumption DEF TablesAreOwned
<1>3. LookupHolds
  BY DEF LookupHolds
<1>4. \A t \in Tables, ip \in Ips : entry[t][ip] \in {{}, Rooms(db[ip])}
  BY DEF Loaded
<1>5. \A ip \in Ips : past[ip] = {Rooms(db[ip])}
  OBVIOUS
<1>6. OnlyRoutes
  BY <1>4, <1>5 DEF OnlyRoutes, EverRouted
<1>7. EntriesAreWhole
  BY <1>4, <1>5 DEF EntriesAreWhole, Cached
<1>8. FillIsWhole
  BY <1>5 DEF FillIsWhole
<1> QED
  BY <1>1, <1>2, <1>3, <1>6, <1>7, <1>8 DEF IInv

-----------------------------------------------------------------------------
(* One lemma per action.                                                   *)

LEMMA ChangeRoutesKeeps ==
    ASSUME IInv, NEW jp \in Ips, NEW join \in Joins, ChangeRoutes(jp, join)
    PROVE  IInv'
<1> USE DEF IInv, ChangeRoutes
<1>1. TypeOK'
  BY NumbersAssumption DEF TypeOK, Rooms
<1>2. TablesAreOwned' /\ LookupHolds'
  BY DEF TablesAreOwned, LookupHolds, Asleep
<1>3. /\ \A ip \in Ips : past[ip] \subseteq past'[ip]
      /\ \A ip \in Ips : Rooms(db'[ip]) \in past'[ip]
  BY DEF TypeOK, FillIsWhole
<1>4. \A ip \in Ips : EverRouted(ip) \subseteq UNION past'[ip]
  BY <1>3 DEF EverRouted
<1>5. OnlyRoutes'
  BY <1>4 DEF OnlyRoutes, EverRouted, LookupHolds, TypeOK
<1>6. EntriesAreWhole'
  BY <1>3 DEF EntriesAreWhole, Cached
<1>7. FillIsWhole'
  BY <1>3 DEF FillIsWhole, Cached, LookupHolds
<1> QED
  BY <1>1, <1>2, <1>5, <1>6, <1>7

\* The steps of a lookup that leave the tables alone.
LEMMA LookupKeeps ==
    IInv /\ ((\E ip \in Ips : Lookup(ip)) \/ EndRead \/ Query \/ QueryFails \/ EndFill \/ Return)
        => IInv'
<1> SUFFICES ASSUME IInv,
                    (\E ip \in Ips : Lookup(ip)) \/ EndRead \/ Query \/ QueryFails
                        \/ EndFill \/ Return
             PROVE  IInv'
  OBVIOUS
<1> USE DEF IInv
<1>1. UNCHANGED <<db, past, changes, live, entry, cache, rf, raced>>
  BY DEF Lookup, EndRead, Query, QueryFails, EndFill, Return
<1>2. ASSUME TypeOK', LookupHolds',
             rx'.pc = "read" => rx'.tab = cache,
             rx'.pc # "idle" => Rooms(rx'.rest) \cup Range(rx'.result) \subseteq EverRouted(rx'.ip),
             rx.pc = "fill" => rx'.pc = "fill" \/ rx.rest = NoRows,
             rx'.pc = "miss" => \/ raced
                                \/ Cached(rx'.ip) = {},
             ~raced /\ rx'.pc = "fill" /\ cache # Null
                => Cached(rx'.ip) \cup Rooms(rx'.rest) \in past[rx'.ip]
      PROVE  IInv'
  <2>1. TablesAreOwned'
    BY <1>1, <1>2 DEF TablesAreOwned, Asleep
  <2>2. OnlyRoutes'
    BY <1>1, <1>2 DEF OnlyRoutes, EverRouted
  <2>3. FillIsWhole'
    BY <1>1, <1>2 DEF FillIsWhole, Cached
  <2>4. EntriesAreWhole'
    <3> SUFFICES ASSUME NEW ip \in Ips, ~raced, Cached(ip) # {},
                        ~(rx'.pc = "fill" /\ rx'.ip = ip)
                 PROVE  Cached(ip) \in past[ip]
      BY <1>1 DEF EntriesAreWhole, Cached
    <3>1. CASE rx.pc = "fill" /\ rx.ip = ip
      <4>1. rx.rest = NoRows
        BY <3>1, <1>2 DEF Lookup, EndRead, Query, QueryFails, EndFill, Return
      <4>2. Rooms(rx.rest) = {}
        BY <4>1, NoRowsNoRooms
      <4> QED
        BY <3>1, <4>2 DEF FillIsWhole, Cached
    <3>2. CASE ~(rx.pc = "fill" /\ rx.ip = ip)
      BY <3>2 DEF EntriesAreWhole
    <3> QED
      BY <3>1, <3>2
  <2> QED
    BY <1>2, <2>1, <2>2, <2>3, <2>4
<1>3. CASE \E ip \in Ips : Lookup(ip)
  BY <1>3, <1>2, NoRowsNoRooms, EmptyResult DEF Lookup, TypeOK, LookupHolds, Idle
<1>4. CASE EndRead
  <2> DEFINE found == IF rx.tab = Null THEN {} ELSE entry[rx.tab][rx.ip]
  <2>1. PICK result \in Copies(found) :
            rx' = [rx EXCEPT !.tab = Null, !.result = result,
                             !.pc = IF result = <<>> THEN "miss" ELSE "serve"]
    BY <1>4 DEF EndRead
  <2>2. result \in Results /\ Range(result) \subseteq found
    BY CopiesArePart
  <2>3. rx.pc = "read" /\ rx.tab = cache /\ rx.ip \in Ips /\ rx.rest = NoRows
    BY <1>4 DEF EndRead, TablesAreOwned, LookupHolds
  <2>4. found = Cached(rx.ip) /\ found \subseteq EverRouted(rx.ip) /\ found \subseteq Groups
    BY <2>3 DEF Cached, OnlyRoutes, TypeOK
  <2>5. TypeOK' /\ LookupHolds'
    BY <1>1, <2>1, <2>2, <2>3, <2>4 DEF TypeOK, LookupHolds
  <2>6. /\ rx'.pc = IF result = <<>> THEN "miss" ELSE "serve"
        /\ rx'.ip = rx.ip /\ rx'.rest = NoRows /\ rx'.result = result
    BY <2>1, <2>3 DEF TypeOK
  <2>7. rx'.pc = "miss" => raced \/ Cached(rx'.ip) = {}
    <3> HIDE DEF found
    <3> SUFFICES ASSUME rx'.pc = "miss" PROVE raced \/ found = {}
      BY <2>4, <2>6
    <3> QED
      BY <2>6, CopyIsEmpty
  <2>8. rx'.pc # "idle" => Rooms(rx'.rest) \cup Range(rx'.result) \subseteq EverRouted(rx'.ip)
    BY <2>2, <2>4, <2>6, NoRowsNoRooms
  <2> HIDE DEF found
  <2> QED
    BY <1>2, <2>3, <2>5, <2>6, <2>7, <2>8
<1>5. CASE Query
  <2>1. rx' = [rx EXCEPT !.pc = "fill", !.rest = db[rx.ip]] /\ rx.pc = "miss" /\ rx.ip \in Ips
    BY <1>5 DEF Query, LookupHolds
  <2>2. db[rx.ip] \in Joins /\ rx.result = <<>>
    BY <2>1 DEF TypeOK, LookupHolds
  <2>3. Rooms(db[rx.ip]) \subseteq EverRouted(rx.ip)
    BY <2>1 DEF FillIsWhole, EverRouted
  <2>4. TypeOK' /\ LookupHolds'
    BY <1>1, <2>1, <2>2 DEF TypeOK, LookupHolds
  <2>5. ~raced => Cached(rx.ip) \cup Rooms(db[rx.ip]) \in past[rx.ip]
    BY <2>1 DEF FillIsWhole
  <2>6. rx'.pc = "fill" /\ rx'.ip = rx.ip /\ rx'.rest = db[rx.ip] /\ rx'.result = <<>>
    BY <2>1, <2>2 DEF TypeOK
  <2> QED
    BY <1>2, <2>1, <2>3, <2>4, <2>5, <2>6, EmptyResult
<1>6. CASE QueryFails \/ EndFill
  BY <1>6, <1>1, <1>2 DEF QueryFails, EndFill, TypeOK, LookupHolds, OnlyRoutes
<1>7. CASE Return
  BY <1>7, <1>1, <1>2, NoRowsNoRooms, EmptyResult DEF Return, TypeOK, LookupHolds, Idle
<1> QED
  BY <1>3, <1>4, <1>5, <1>6, <1>7

LEMMA FillRowKeeps == ASSUME IInv, NEW g \in Groups, FillRow(g) PROVE IInv'
<1> USE DEF IInv, FillRow
<1>1. rx.pc = "fill" /\ rx.ip \in Ips /\ rx.rest[g] > 0 /\ g \in EverRouted(rx.ip)
  BY DEF LookupHolds, OnlyRoutes, Rooms
<1> DEFINE left == OneLess(rx.rest, g)
           q == Noted(rx.result, g)
<1>a. rx.rest \in Joins /\ rx.result \in Results
  BY DEF TypeOK
<1>b. left \in Joins /\ Rooms(left) \subseteq Rooms(rx.rest)
      /\ Rooms(left) \cup {g} = Rooms(rx.rest)
  BY <1>1, <1>a, RowTaken
<1>c. q \in Results /\ Range(q) \subseteq Range(rx.result) \cup {g}
  BY <1>a, ResultGrows
<1>d. rx' = [rx EXCEPT !.rest = left, !.result = q]
  OBVIOUS
<1> HIDE DEF left, q
<1>2. TypeOK' /\ LookupHolds' /\ TablesAreOwned'
  <2>1. entry' \in [Tables -> [Ips -> SUBSET Groups]]
    <3>1. entry \in [Tables -> [Ips -> SUBSET Groups]] /\ rx.ip \in Ips
      BY <1>1 DEF TypeOK
    <3>2. entry' = IF cache = Null THEN entry
                   ELSE [entry EXCEPT ![cache][rx.ip] = @ \cup {g}]
      OBVIOUS
    <3> HIDE DEF FillRow, IInv
    <3> QED
      BY <3>1, <3>2
  <2>2. TypeOK'
    BY <1>b, <1>c, <1>d, <2>1 DEF TypeOK
  <2> QED
    BY <1>1, <1>d, <2>2 DEF TypeOK, LookupHolds, TablesAreOwned, Asleep
<1>3. rx'.pc = "fill" /\ rx'.ip = rx.ip /\ rx'.rest = left /\ rx'.result = q
  BY <1>1, <1>d DEF TypeOK
<1>e. Rooms(rx'.rest) \cup Range(rx'.result) \subseteq EverRouted(rx'.ip)
  BY <1>1, <1>3, <1>b, <1>c DEF OnlyRoutes
<1>4. CASE cache = Null
  <2>1. OnlyRoutes'
    BY <1>e, <1>4 DEF OnlyRoutes, EverRouted
  <2>2. EntriesAreWhole' /\ FillIsWhole'
    BY <1>3, <1>4 DEF EntriesAreWhole, FillIsWhole, Cached
  <2> QED
    BY <1>2, <2>1, <2>2
<1>5. CASE cache # Null
  <2>1. /\ \A t \in Tables, ip \in Ips : t # cache \/ ip # rx.ip => entry'[t][ip] = entry[t][ip]
        /\ entry'[cache][rx.ip] = entry[cache][rx.ip] \cup {g}
    BY <1>1, <1>5 DEF TypeOK
  <2>2. cache \in Tables /\ rf.new # cache
    BY <1>5 DEF TypeOK, TablesAreOwned
  <2>3. \A t \in Tables, ip \in Ips : entry'[t][ip] \subseteq EverRouted(ip)
    BY <1>1, <2>1, <2>2 DEF OnlyRoutes
  <2>4. OnlyRoutes'
    BY <1>e, <2>3 DEF OnlyRoutes, EverRouted
  <2>5. EntriesAreWhole'
    BY <1>1, <1>3, <1>5, <2>1, <2>2 DEF EntriesAreWhole, Cached
  <2>6. entry'[cache][rx.ip] \cup Rooms(rx'.rest) = entry[cache][rx.ip] \cup Rooms(rx.rest)
    BY <1>3, <1>b, <2>1
  <2>7. rf.pc = "swap" => \A ip \in Ips : entry'[rf.new][ip] = entry[rf.new][ip]
    BY <2>1, <2>2 DEF TypeOK, TablesAreOwned
  <2>8. FillIsWhole'
    BY <1>1, <1>3, <1>5, <2>6, <2>7 DEF FillIsWhole, Cached
  <2> QED
    BY <1>2, <2>4, <2>5, <2>8
<1> QED
  BY <1>4, <1>5

LEMMA LoadKeeps == IInv /\ Load => IInv'
<1> SUFFICES ASSUME IInv, Load PROVE IInv'
  OBVIOUS
<1> USE DEF IInv
<1>1. PICK t \in Tables \ live :
         /\ live' = live \cup {t}
         /\ entry' = [entry EXCEPT ![t] = Loaded]
         /\ rf' = [Asleep EXCEPT !.pc = "swap", !.new = t]
  BY DEF Load
<1>2. /\ rf = Asleep
      /\ UNCHANGED <<db, past, changes, cache, rx, raced>>
  BY DEF Load, TablesAreOwned
<1>3. rf' = [pc |-> "swap", new |-> t, old |-> Null]
  BY <1>1 DEF Asleep
<1>4. t # cache /\ t # Null
  BY <1>1, <1>2, NullAssumption DEF TablesAreOwned, Asleep
<1>5. TypeOK'
  BY <1>1, <1>2, <1>3 DEF TypeOK, Loaded, Rooms
<1>6. TablesAreOwned'
  BY <1>1, <1>2, <1>3, <1>4, NullAssumption DEF TablesAreOwned, Asleep
<1>7. LookupHolds'
  BY <1>2 DEF LookupHolds
<1>8. /\ \A u \in Tables, ip \in Ips : u # t => entry'[u][ip] = entry[u][ip]
      /\ \A ip \in Ips : entry'[t][ip] = Rooms(db[ip])
  BY <1>1 DEF TypeOK, Loaded
<1>9. \A ip \in Ips : Rooms(db[ip]) \subseteq EverRouted(ip)
  BY DEF FillIsWhole, EverRouted
<1>10. \A u \in Tables, ip \in Ips : entry'[u][ip] \subseteq EverRouted(ip)
  BY <1>8, <1>9 DEF OnlyRoutes
<1>11. OnlyRoutes'
  BY <1>2, <1>10 DEF OnlyRoutes, EverRouted
<1>12. cache # Null => \A ip \in Ips : entry'[cache][ip] = entry[cache][ip]
  BY <1>4, <1>8 DEF TypeOK
<1>13. EntriesAreWhole'
  BY <1>2, <1>12 DEF EntriesAreWhole, Cached
<1>14. FillIsWhole'
  BY <1>2, <1>3, <1>8, <1>12 DEF FillIsWhole, Cached, LookupHolds
<1> QED
  BY <1>5, <1>6, <1>7, <1>11, <1>13, <1>14

LEMMA SwapKeeps == IInv /\ Swap => IInv'
<1> SUFFICES ASSUME IInv, Swap PROVE IInv'
  OBVIOUS
<1> USE DEF IInv, Swap
<1>1. rf' = [pc |-> "free", new |-> Null, old |-> cache]
  BY DEF Asleep
<1>2. cache' \in Tables /\ cache' # Null /\ cache' = rf.new /\ rf.old = Null
  BY DEF TypeOK, TablesAreOwned
<1>3. TypeOK'
  BY <1>1, <1>2 DEF TypeOK
<1>4. TablesAreOwned'
  BY <1>1, <1>2 DEF TablesAreOwned, Asleep
<1>5. LookupHolds' /\ OnlyRoutes'
  BY DEF LookupHolds, OnlyRoutes, EverRouted
<1>6. \A ip \in Ips : entry'[cache'][ip] \in past[ip]
  BY <1>2 DEF FillIsWhole
<1>7. EntriesAreWhole' /\ FillIsWhole'
  BY <1>1, <1>2, <1>6 DEF EntriesAreWhole, FillIsWhole, Cached, LookupHolds
<1> QED
  BY <1>3, <1>4, <1>5, <1>7

LEMMA FreeKeeps == IInv /\ Free => IInv'
<1> SUFFICES ASSUME IInv, Free PROVE IInv'
  OBVIOUS
<1> USE DEF IInv, Free
<1>1. rf' = [pc |-> "sleep", new |-> Null, old |-> Null] /\ rf.new = Null
  BY DEF Asleep, TablesAreOwned
<1>2. TypeOK'
  BY <1>1 DEF TypeOK, NoEntries
<1>3. TablesAreOwned'
  BY <1>1 DEF TablesAreOwned, Asleep
<1>4. \A t \in Tables, ip \in Ips : entry'[t][ip] \subseteq entry[t][ip]
  BY DEF TypeOK, NoEntries
<1>5. LookupHolds' /\ OnlyRoutes'
  BY <1>4 DEF LookupHolds, OnlyRoutes, EverRouted
<1>6. cache # Null => \A ip \in Ips : entry'[cache][ip] = entry[cache][ip]
  BY DEF TypeOK, TablesAreOwned
<1>7. EntriesAreWhole'
  BY <1>6 DEF EntriesAreWhole, Cached
<1>8. FillIsWhole'
  <2>1. rx.pc \in {"miss", "fill"} => rx.ip \in Ips
    BY DEF LookupHolds
  <2>2. \A ip \in Ips : Cached(ip)' = Cached(ip)
    BY <1>6 DEF Cached
  <2> HIDE DEF Free
  <2>3. UNCHANGED <<db, past, raced, rx, cache>> /\ rf'.pc # "swap"
    BY <1>1 DEF Free
  <2> QED
    BY <2>1, <2>2, <2>3 DEF FillIsWhole
<1> QED
  BY <1>2, <1>3, <1>5, <1>7, <1>8

LEMMA NextKeeps == IInv /\ [Next]_vars => IInv'
<1> SUFFICES ASSUME IInv, [Next]_vars PROVE IInv'
  OBVIOUS
<1>1. CASE Receive
  BY <1>1, LookupKeeps, FillRowKeeps DEF Receive
<1>2. CASE Refresh
  BY <1>2, LoadKeeps, SwapKeeps, FreeKeeps DEF Refresh
<1>3. CASE \E ip \in Ips, join \in Joins : ChangeRoutes(ip, join)
  BY <1>3, ChangeRoutesKeeps
<1>4. CASE UNCHANGED vars
  BY <1>4 DEF vars, IInv, TypeOK, TablesAreOwned, LookupHolds, OnlyRoutes, EntriesAreWhole,
              FillIsWhole, Cached, EverRouted, Asleep
<1> QED
  BY <1>1, <1>2, <1>3, <1>4 DEF Next

-----------------------------------------------------------------------------
\* The inductive invariant holds; in particular no thread ever holds a table
\* that was freed (lines 600-603, 643-646).
THEOREM InductiveInvariant == Spec => []IInv
<1>1. Init => IInv
  BY InitInvariant
<1>2. IInv /\ [Next]_vars => IInv'
  BY NextKeeps
<1> QED
  BY <1>1, <1>2, PTL DEF Spec

\* A hit or a query names no chatroom that was not a route of that ip.
THEOREM OnlyRoutesAreServed == Spec => []OnlyRoutes
<1>1. IInv => OnlyRoutes
  BY DEF IInv
<1> QED
  BY <1>1, InductiveInvariant, PTL

\* Entries are whole, unless a refresh swapped the table during a lookup.
THEOREM WholeEntries == Spec => []EntriesAreWhole
<1>1. IInv => EntriesAreWhole
  BY DEF IInv
<1> QED
  BY <1>1, InductiveInvariant, PTL
=============================================================================
