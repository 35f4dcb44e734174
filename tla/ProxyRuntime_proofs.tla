------------------------ MODULE ProxyRuntime_proofs -------------------------
(***************************************************************************)
(* A proxy repository never unlinks the content it has, for any number of  *)
(* callers and of upstream versions, whatever loads, the warm-up and       *)
(* upstream do between each other's steps.                                 *)
(***************************************************************************)
EXTENDS ProxyRuntime, TLAPS

Rows == [digest : Version, blob : 0..MaxVersion, stale : BOOLEAN]
Entries == [digest : Version, blob : 0..MaxVersion, warming : BOOLEAN]
Flights == [pc : {"off", "check", "get", "refresh", "gone", "put", "ensure",
                  "fetch", "vanished", "attach", "link", "save", "downloaded", "publish",
                  "meta", "create"},
            digest : 0..MaxVersion, blob : 0..MaxVersion, had : BOOLEAN]
WarmUps == [pc : {"off", "refresh", "gone", "put"}, digest : 0..MaxVersion]
Callers == [pc : {"idle", "wait", "open", "refused", "content"}, blob : 0..MaxVersion]

\* A load that has read or fetched the metadata knows a digest; one that is
\* about to link a blob has downloaded one.
FlightKnows ==
    /\ flight.pc \in {"refresh", "gone", "put", "ensure", "fetch", "vanished", "attach",
                      "link", "save", "downloaded", "publish", "create"} => flight.digest # 0
    /\ flight.pc \in {"attach", "link", "save"} => flight.blob # 0

WarmKnows == warm.pc = "put" => warm.digest # 0

\* Who has the id of the row in hand has it while there is a row.
Locates == located \subseteq {"attach", "sweep"} /\ (located # {} => row # None)

\* TypeOK with names for its records.
Typed ==
    /\ version \in 0..MaxVersion /\ reachable \in BOOLEAN
    /\ intact \subseteq Version /\ losses \in 0..MaxLosses
    /\ row \in Rows \cup {None} /\ memory \in Entries \cup {None}
    /\ negative \in {"none", "absent", "failure"}
    /\ flight \in Flights /\ warm \in WarmUps /\ request \in [Requests -> Callers]

IInv == Typed /\ FlightKnows /\ WarmKnows /\ Locates

LEMMA Bounds == 0 \in 0..MaxVersion /\ Version \subseteq 0..MaxVersion
                /\ \A v \in 0..MaxVersion : v # 0 => v \in Version
BY ProxyAssumption DEF Version

\* None is neither a row nor an entry.
LEMMA NoneIsNothing == None \notin Rows /\ None \notin Entries
<1>1. Rows \subseteq [digest : 0..MaxVersion, blob : 0..MaxVersion, stale : BOOLEAN]
    BY Bounds DEF Rows
<1>2. Entries \subseteq [digest : 0..MaxVersion, blob : 0..MaxVersion, warming : BOOLEAN]
    BY Bounds DEF Entries
<1> QED
    BY <1>1, <1>2, ProxyAssumption

LEMMA Answers ==
    /\ Idle \in Callers /\ Waiting \in Callers /\ Refusal \in Callers
    /\ \A b \in 0..MaxVersion : Opening(b) \in Callers /\ Content(b) \in Callers
    /\ Off \in Flights /\ Off.pc = "off" /\ WarmOff \in WarmUps /\ WarmOff.pc = "off"
BY Bounds DEF Idle, Waiting, Refusal, Opening, Content, Callers, Off, Flights, WarmOff, WarmUps

LEMMA InitHolds == Init => IInv
<1> SUFFICES ASSUME Init PROVE IInv
    OBVIOUS
<1>1. Typed
    BY Answers, ProxyAssumption DEF Init, Typed
<1> QED
    BY <1>1, Answers DEF Init, IInv, FlightKnows, WarmKnows, Locates

\* What a step may do to a row: it stays as good as it was.
Grows == [row # None /\ row' # None /\ row.blob # 0 => row'.blob # 0]_row

LEMMA PutStores ==
    ASSUME Typed, NEW d \in Version, Put(d)
    PROVE  row' \in Rows /\ Grows
BY NoneIsNothing, Bounds DEF Typed, Put, Store, Rows, Grows

\* Deliveries and new callers.
LEMMA DeliverKeeps ==
    ASSUME request \in [Requests -> Callers], NEW x \in Callers, Deliver(x)
    PROVE  request' \in [Requests -> Callers]
BY DEF Deliver

LEMMA BecomesKeeps ==
    ASSUME request \in [Requests -> Callers], NEW r \in Requests, NEW x \in Callers, Becomes(r, x)
    PROVE  request' \in [Requests -> Callers]
BY DEF Becomes

LEMMA EntryKnown == ASSUME Typed, memory # None PROVE memory \in Entries /\ memory.blob \in 0..MaxVersion
BY DEF Typed, Entries

LEMMA CallerKeeps ==
    ASSUME IInv, NEW r \in Requests, Begin(r) \/ Cancel(r) \/ Open(r)
    PROVE  IInv' /\ Grows
<1> USE Answers DEF IInv, Typed, Locates
<1>0. Grows
    BY DEF Begin, Cancel, Open, Grows
<1>1. CASE Begin(r)
    <2>1. PICK x \in Callers : Becomes(r, x)
        BY <1>1, EntryKnown DEF Begin
    <2>2. request' \in [Requests -> Callers]
        BY <2>1, BecomesKeeps
    <2>3. flight' = flight \/ flight' = [Off EXCEPT !.pc = "check"]
        BY <1>1 DEF Begin
    <2>4. flight' \in Flights /\ FlightKnows'
        BY <2>3, Bounds DEF FlightKnows, Off, Flights
    <2>5. UNCHANGED <<version, reachable, intact, losses, row, located, memory, negative, warm>>
        BY <1>1 DEF Begin, upstream, disk
    <2> QED
        BY <1>0, <2>2, <2>4, <2>5 DEF WarmKnows
<1>2. CASE Cancel(r)
    <2>1. request' \in [Requests -> Callers]
        BY <1>2, BecomesKeeps DEF Cancel
    <2>2. UNCHANGED <<version, reachable, intact, losses, row, located, memory, negative, warm, flight>>
        BY <1>2 DEF Cancel, upstream, disk
    <2> QED
        BY <1>0, <2>1, <2>2 DEF WarmKnows, FlightKnows
<1>3. CASE Open(r)
    <2>1. request[r].blob \in 0..MaxVersion
        BY DEF Callers
    <2>2. PICK x \in Callers : Becomes(r, x)
        BY <1>3, <2>1 DEF Open
    <2>3. request' \in [Requests -> Callers]
        BY <2>2, BecomesKeeps
    <2>4. UNCHANGED <<version, reachable, intact, losses, row, located, warm, flight>>
          /\ memory' \in {memory, None} /\ negative' \in {negative, "none"}
        BY <1>3 DEF Open, upstream, disk
    <2> QED
        BY <1>0, <2>3, <2>4 DEF WarmKnows, FlightKnows
<1> QED
    BY <1>1, <1>2, <1>3

------------------------------------------------------------------------------
\* A step of the load: what it may do to its record, and to the rest.
LEMMA FlightKeeps == IInv /\ Flight => IInv' /\ Grows
<1> SUFFICES ASSUME IInv, Flight PROVE IInv' /\ Grows
    OBVIOUS
<1> USE Answers, Bounds, NoneIsNothing DEF IInv, Typed, At
<1>a. version' = version /\ reachable' = reachable /\ losses' = losses /\ warm' = warm
    BY DEF Flight, FlightCheck, FlightGet, FlightRefresh, FlightGone, FlightPut, FlightEnsure,
           FlightFetch, FlightFetchFails, FlightFetchAbsent, FlightVanished, FlightAttach,
           FlightLink, FlightSave, FlightPublish, FlightMeta, FlightCreate, upstream, disk
<1>b. flight \in Flights /\ (flight.digest # 0 => flight.digest \in Version)
      /\ (flight.blob # 0 => flight.blob \in Version)
    BY DEF Flights
\* Every step leaves the rest well-typed; the flight and the row are what
\* each case is about.
<1> DEFINE Good ==
        /\ intact' \subseteq Version
        /\ row' \in Rows \cup {None} /\ memory' \in Entries \cup {None}
        /\ negative' \in {"none", "absent", "failure"}
        /\ flight' \in Flights /\ FlightKnows' /\ request' \in [Requests -> Callers]
        /\ Grows /\ Locates'
<1>c. ASSUME Good PROVE IInv' /\ Grows
    BY <1>a, <1>c DEF WarmKnows
<1>d. ASSUME NEW x \in Callers, Finish(x)
      PROVE  flight' \in Flights /\ FlightKnows' /\ request' \in [Requests -> Callers]
    BY <1>d, DeliverKeeps DEF Finish, FlightKnows
<1>e. ASSUME NEW p \in {"get", "meta", "refresh", "gone", "put", "ensure", "fetch", "vanished",
                        "downloaded", "publish", "create"},
             flight' = [flight EXCEPT !.pc = p],
             flight.digest # 0 \/ p \in {"get", "meta"}
      PROVE  flight' \in Flights /\ FlightKnows'
    BY <1>b, <1>e DEF Flights, FlightKnows
<1>f. ASSUME UNCHANGED <<row, located>> PROVE Grows /\ Locates'
    BY <1>f DEF Grows, Locates
<1>g. ASSUME Drop PROVE row' = None /\ Grows /\ Locates'
    BY <1>g DEF Drop, Grows, Locates
<1>h. ASSUME row' \in Rows, located' \subseteq located PROVE Locates'
    BY <1>h DEF Locates
<1>1. CASE FlightCheck
    <2>1. UNCHANGED <<intact, row, located, memory, negative>>
        BY <1>1 DEF FlightCheck, disk
    <2>2. (\E x \in Callers : Finish(x)) \/ (flight' = [flight EXCEPT !.pc = "get"] /\ UNCHANGED request)
        BY <1>1, EntryKnown DEF FlightCheck, Goto
    <2> QED
        BY <1>c, <1>d, <1>e, <1>f, <2>1, <2>2
<1>2. CASE FlightGet
    <2>1. UNCHANGED <<intact, row, located, memory, negative, request>>
        BY <1>2 DEF FlightGet, disk
    <2>2. CASE row = None
        BY <1>2, <1>c, <1>e, <1>f, <2>1, <2>2 DEF FlightGet
    <2>3. CASE row # None
        <3>1. row.digest \in Version /\ row.blob \in 0..MaxVersion
            BY <2>3 DEF Rows
        <3>2. PICK p \in {"refresh", "ensure"} :
                  flight' = [flight EXCEPT !.pc = p, !.digest = row.digest, !.blob = row.blob]
            BY <1>2, <2>3 DEF FlightGet
        <3>a. row.digest # 0
            BY <3>1, ProxyAssumption DEF Version
        <3>3. flight' \in Flights /\ FlightKnows'
            BY <1>b, <3>1, <3>2, <3>a DEF Flights, FlightKnows
        <3> QED
            BY <1>c, <1>f, <2>1, <3>3
    <2> QED
        BY <2>2, <2>3
<1>3. CASE FlightRefresh
    <2>1. UNCHANGED <<intact, row, located, memory, request>> /\ negative' \in {negative, "failure"}
        BY <1>3 DEF FlightRefresh, disk
    <2>2. flight.digest # 0
        BY <1>3 DEF FlightRefresh, FlightKnows
    <2>3. \/ \E p \in {"ensure", "gone"} : flight' = [flight EXCEPT !.pc = p]
          \/ version # 0 /\ flight' = [flight EXCEPT !.pc = "put", !.digest = version, !.blob = 0]
        BY <1>3 DEF FlightRefresh
    <2>4. flight' \in Flights /\ FlightKnows'
        BY <1>b, <1>e, <2>2, <2>3 DEF Flights, FlightKnows
    <2> QED
        BY <1>c, <1>f, <2>1, <2>4
<1>4. CASE FlightGone
    BY <1>4, <1>c, <1>d, <1>g DEF FlightGone, Forget, disk
<1>5. CASE FlightPut
    <2>1. flight.digest # 0
        BY <1>5 DEF FlightPut, FlightKnows
    <2>2. row' \in Rows /\ Grows
        BY <1>5, <1>b, <2>1, PutStores DEF FlightPut
    <2> QED
        BY <1>5, <1>c, <1>e, <1>h, <2>1, <2>2 DEF FlightPut, Goto, disk
<1>6. CASE FlightEnsure
    <2>1. flight.digest # 0
        BY <1>6 DEF FlightEnsure, FlightKnows
    <2>2. \/ flight' = [flight EXCEPT !.pc = "publish"]
          \/ \E h \in BOOLEAN : flight' = [flight EXCEPT !.pc = "fetch", !.blob = 0, !.had = h]
        BY <1>6 DEF FlightEnsure
    <2>a. ASSUME NEW h \in BOOLEAN, flight' = [flight EXCEPT !.pc = "fetch", !.blob = 0, !.had = h]
          PROVE  flight' \in Flights /\ FlightKnows'
        BY <1>b, <2>1, <2>a DEF Flights, FlightKnows
    <2>3. flight' \in Flights /\ FlightKnows'
        BY <1>e, <2>1, <2>2, <2>a
    <2> QED
        BY <1>6, <1>c, <1>f, <2>3 DEF FlightEnsure, disk
<1>7. CASE FlightFetch
    <2>1. flight.digest # 0
        BY <1>7 DEF FlightFetch, FlightKnows
    <2>2. flight' \in Flights /\ FlightKnows' /\ intact' \subseteq Version
        BY <1>7, <1>b, <2>1 DEF FlightFetch, Flights, FlightKnows
    <2> QED
        BY <1>7, <1>c, <1>f, <2>2 DEF FlightFetch
<1>8. CASE FlightFetchFails
    BY <1>8, <1>b, <1>c, <1>d, <1>f DEF FlightFetchFails, EnsureFails, disk
<1>9. CASE FlightFetchAbsent
    <2>1. flight.digest # 0
        BY <1>9 DEF FlightFetchAbsent, FlightKnows
    <2> QED
        BY <1>9, <1>c, <1>e, <1>f, <2>1 DEF FlightFetchAbsent, Goto, disk
<1>10. CASE FlightVanished
    <2>1. \E x \in Callers : Finish(x)
        BY <1>10, <1>b DEF FlightVanished, EnsureFails, Flights
    <2> QED
        BY <1>10, <1>c, <1>d, <1>g, <2>1 DEF FlightVanished, disk
<1>11. CASE FlightAttach
    <2>1. flight.digest # 0 /\ flight.blob # 0
        BY <1>11 DEF FlightAttach, FlightKnows
    <2>2. PICK p \in {"save", "link"} : flight' = [flight EXCEPT !.pc = p]
        BY <1>11 DEF FlightAttach, Goto
    <2>p. p \in {"save", "link"}
        OBVIOUS
    <2>a. flight' \in Flights
        BY <2>2, <2>p DEF Flights
    <2>b. flight'.pc = p /\ flight'.digest = flight.digest /\ flight'.blob = flight.blob
        BY <2>2 DEF Flights
    <2>3. flight' \in Flights /\ FlightKnows'
        BY <2>1, <2>a, <2>b DEF FlightKnows
    <2>4. row' = row /\ (located' = located \/ (row # None /\ located' = located \cup {"attach"}))
        BY <1>11 DEF FlightAttach
    <2>5. Grows /\ Locates'
        BY <2>4 DEF Grows, Locates
    <2> QED
        BY <1>11, <1>c, <2>3, <2>4, <2>5 DEF FlightAttach, disk
<1>15. ASSUME NEW d \in Version, flight.blob # 0, Store(d, flight.blob)
       PROVE  row' \in Rows /\ Grows
    <2>1. PICK b \in BOOLEAN : row' = [digest |-> d, blob |-> flight.blob, stale |-> b]
        BY <1>15 DEF Store
    <2>2. row' \in Rows /\ row'.blob # 0
        BY <1>15, <1>b, <2>1 DEF Rows
    <2> QED
        BY <2>2 DEF Grows
<1>16. CASE FlightLink
    <2>1. flight.digest # 0 /\ flight.blob # 0
        BY <1>16 DEF FlightLink, FlightKnows
    <2>2. located' \subseteq located
        BY <1>16 DEF FlightLink
    <2>3. row' \in Rows \cup {None} /\ Grows /\ Locates'
        <3>1. CASE "attach" \in located
            <4>1. row.digest \in Version /\ Store(row.digest, flight.blob)
                BY <1>16, <3>1 DEF FlightLink, Locates, Rows
            <4> QED
                BY <1>15, <1>h, <2>1, <2>2, <4>1
        <3>2. CASE "attach" \notin located
            <4>1. row' = row
                BY <1>16, <3>2 DEF FlightLink
            <4> QED
                BY <2>2, <4>1 DEF Grows, Locates
        <3> QED
            BY <3>1, <3>2
    <2> QED
        BY <1>16, <1>c, <1>e, <2>1, <2>3 DEF FlightLink, Goto, disk
<1>17. CASE FlightSave
    <2>1. flight.digest \in Version /\ flight.digest # 0 /\ flight.blob # 0
        BY <1>17, <1>b DEF FlightSave, FlightKnows
    <2>2. row' \in Rows /\ Grows
        BY <1>15, <1>17, <2>1 DEF FlightSave
    <2>3. Locates'
        BY <1>17, <1>h, <2>2 DEF FlightSave
    <2> QED
        BY <1>17, <1>c, <1>e, <2>1, <2>2, <2>3 DEF FlightSave, Goto, disk
<1>12. CASE FlightPublish
    <2>1. flight.digest \in Version /\ flight.blob \in 0..MaxVersion
        BY <1>12, <1>b DEF FlightPublish, FlightKnows, Flights
    <2>2. memory' \in Entries
        BY <1>12, <2>1 DEF FlightPublish, Entries
    <2>3. flight' \in Flights /\ FlightKnows' /\ request' \in [Requests -> Callers]
        BY <1>12, <1>d, <2>1 DEF FlightPublish
    <2> QED
        BY <1>12, <1>c, <1>f, <2>2, <2>3 DEF FlightPublish, disk
<1>13. CASE FlightMeta
    <2>1. UNCHANGED <<intact, row, located, memory>> /\ negative' \in {negative, "absent"}
        BY <1>13 DEF FlightMeta, disk
    <2>2. \/ Finish(Refusal)
          \/ /\ version # 0 /\ UNCHANGED request
             /\ flight' = [flight EXCEPT !.pc = "create", !.digest = version, !.blob = 0]
        BY <1>13 DEF FlightMeta
    <2>3. flight' \in Flights /\ FlightKnows' /\ request' \in [Requests -> Callers]
        BY <1>b, <1>d, <2>2 DEF Flights, FlightKnows
    <2> QED
        BY <1>c, <1>f, <2>1, <2>3
<1>14. CASE FlightCreate
    <2>1. flight.digest # 0
        BY <1>14 DEF FlightCreate, FlightKnows
    <2>2. row' \in Rows /\ Grows
        BY <1>14, <1>b, <2>1, PutStores DEF FlightCreate
    <2> QED
        BY <1>14, <1>c, <1>e, <1>h, <2>1, <2>2 DEF FlightCreate, Goto, disk
<1> QED
    BY <1>1, <1>2, <1>3, <1>4, <1>5, <1>6, <1>7, <1>8, <1>9, <1>10, <1>11, <1>12, <1>13, <1>14,
       <1>16, <1>17
    DEF Flight

------------------------------------------------------------------------------
LEMMA WarmKeeps == IInv /\ (WarmStart \/ Warm) => IInv' /\ Grows
<1> SUFFICES ASSUME IInv, WarmStart \/ Warm PROVE IInv' /\ Grows
    OBVIOUS
<1> USE Answers, Bounds, NoneIsNothing DEF IInv, Typed
<1>a. UNCHANGED <<version, reachable, intact, losses, flight, request>>
    BY DEF WarmStart, Warm, WarmUnchanged, WarmChanged, WarmPut, WarmAbsent, WarmGone, upstream, disk
<1>b. NotWarming \in Entries \cup {None}
    BY DEF NotWarming, Entries
<1> DEFINE Good ==
        /\ row' \in Rows \cup {None} /\ memory' \in Entries \cup {None}
        /\ negative' \in {"none", "absent", "failure"}
        /\ warm' \in WarmUps /\ WarmKnows'
        /\ Grows /\ Locates'
<1>c. ASSUME Good PROVE IInv' /\ Grows
    BY <1>a, <1>c DEF FlightKnows
<1>f. ASSUME UNCHANGED <<row, located>> PROVE Grows /\ Locates'
    BY <1>f DEF Grows, Locates
<1>1. CASE WarmStart
    <2>1. memory' \in Entries /\ memory.digest \in 0..MaxVersion
        BY <1>1 DEF WarmStart, Entries
    <2>2. warm' \in WarmUps /\ WarmKnows'
        BY <1>1, <2>1 DEF WarmStart, WarmUps, WarmKnows
    <2> QED
        BY <1>1, <1>c, <1>f, <2>1, <2>2 DEF WarmStart
<1>2. CASE WarmUnchanged
    <2>1. WarmKnows'
        BY <1>2 DEF WarmUnchanged, WarmKnows
    <2> QED
        BY <1>2, <1>b, <1>c, <1>f, <2>1 DEF WarmUnchanged
<1>3. CASE WarmChanged
    <2>1. version \in Version
        BY <1>3 DEF WarmChanged
    <2>2. memory' \in Entries \cup {None}
        BY <1>3, <2>1 DEF WarmChanged, Entries
    <2>3. warm' \in WarmUps /\ WarmKnows'
        BY <1>3, <2>1 DEF WarmChanged, WarmUps, WarmKnows, Version
    <2> QED
        BY <1>3, <1>c, <1>f, <2>2, <2>3 DEF WarmChanged
<1>4. CASE WarmPut
    <2>1. warm.digest \in Version
        BY <1>4 DEF WarmPut, WarmKnows, WarmUps
    <2>2. row' \in Rows /\ Grows
        BY <1>4, <2>1, PutStores DEF WarmPut
    <2>3. WarmKnows' /\ Locates'
        BY <1>4, <2>2 DEF WarmPut, WarmKnows, Locates
    <2> QED
        BY <1>4, <1>b, <1>c, <2>2, <2>3 DEF WarmPut
<1>5. CASE WarmAbsent
    <2>1. warm' \in WarmUps /\ WarmKnows'
        BY <1>5 DEF WarmAbsent, WarmUps, WarmKnows
    <2> QED
        BY <1>5, <1>c, <1>f, <2>1 DEF WarmAbsent
<1>6. CASE WarmGone
    <2>1. WarmKnows' /\ Grows /\ Locates'
        BY <1>6 DEF WarmGone, Forget, Drop, WarmKnows, Grows, Locates
    <2> QED
        BY <1>6, <1>c, <2>1 DEF WarmGone, Forget, Drop
<1> QED
    BY <1>1, <1>2, <1>3, <1>4, <1>5, <1>6 DEF Warm

Environment ==
    MemoryExpires \/ NegativeExpires \/ RowAges \/ UpstreamChanges \/ (\E v \in Version : LoseFile(v))
    \/ SweepList \/ SweepDelete \/ SweepFails

LEMMA EnvironmentKeeps == IInv /\ Environment => IInv' /\ Grows
<1> SUFFICES ASSUME IInv, Environment PROVE IInv' /\ Grows
    OBVIOUS
<1> USE DEF IInv, Typed, FlightKnows, WarmKnows, Locates, Grows, upstream, disk
<1>1. CASE MemoryExpires
    BY <1>1 DEF MemoryExpires
<1>2. CASE NegativeExpires
    BY <1>2 DEF NegativeExpires
<1>3. CASE RowAges
    <2>1. row' \in Rows /\ row'.blob = row.blob
        BY <1>3 DEF RowAges, Rows
    <2> QED
        BY <1>3, <2>1, NoneIsNothing DEF RowAges
<1>4. CASE UpstreamChanges
    <2>1. version' \in 0..MaxVersion
        BY <1>4, ProxyAssumption DEF UpstreamChanges
    <2> QED
        BY <1>4, <2>1 DEF UpstreamChanges
<1>5. ASSUME NEW v \in Version, LoseFile(v) PROVE IInv' /\ Grows
    <2>1. losses' \in 0..MaxLosses /\ intact' \subseteq Version
        BY <1>5, ProxyAssumption DEF LoseFile
    <2> QED
        BY <1>5, <2>1 DEF LoseFile
<1>6. CASE SweepList
    BY <1>6 DEF SweepList, Swept
<1>7. CASE SweepDelete
    BY <1>7 DEF SweepDelete, Drop
<1>8. CASE SweepFails
    BY <1>8 DEF SweepFails
<1> QED
    BY <1>1, <1>2, <1>3, <1>4, <1>5, <1>6, <1>7, <1>8 DEF Environment

LEMMA Steps == IInv /\ [Next]_vars => IInv' /\ Grows
<1> SUFFICES ASSUME IInv, [Next]_vars PROVE IInv' /\ Grows
    OBVIOUS
<1>1. CASE Next
    BY <1>1, CallerKeeps, FlightKeeps, WarmKeeps, EnvironmentKeeps DEF Next, Environment
<1>2. CASE UNCHANGED vars
    <2>1. UNCHANGED <<version, reachable, intact, losses, row, located, memory, negative, flight, warm, request>>
        BY <1>2 DEF vars, upstream, disk
    <2> QED
        BY <2>1 DEF IInv, Typed, FlightKnows, WarmKnows, Locates, Grows
<1> QED
    BY <1>1, <1>2

LEMMA Inductive == Spec => []IInv
<1>1. IInv /\ [Next]_vars => IInv'
    BY Steps
<1> QED
    BY <1>1, InitHolds, PTL DEF Spec

\* The caches, the row, the load, the warm-up and the callers keep their types:
\* a row and a cached artifact always name a content upstream has published.
THEOREM TypeCorrect == Spec => []TypeOK
<1>1. IInv => TypeOK
    BY DEF IInv, Typed, Locates, TypeOK, Rows, Entries, Flights, WarmUps, Callers
<1> QED
    BY <1>1, Inductive, PTL

\* A row that has its content keeps one until it is deleted, whatever refresh,
\* download, warm-up or absence upstream comes between.
THEOREM OldContentIsKept == Spec => RefreshKeepsOldContent
<1>1. IInv /\ [Next]_vars => [row # None /\ row' # None /\ row.blob # 0 => row'.blob # 0]_row
    BY Steps DEF Grows
<1> QED
    BY <1>1, Inductive, PTL DEF Spec, RefreshKeepsOldContent
==============================================================================
