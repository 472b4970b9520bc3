------------------------------ MODULE ApiPages ------------------------------
(***************************************************************************)
(* The read-only API server (crates/ocfleet-api): how a client walks a     *)
(* listing page by page while the controller goes on writing the database  *)
(* the pages are read from.                                                *)
(*                                                                         *)
(* Every request opens its own read-only connection, so a page is one      *)
(* consistent read and two pages are not.  The only thing that ties them   *)
(* together is the cursor: the position of the last row returned, signed   *)
(* with the current key of the keyring and bound to the resource, to the   *)
(* filters and to an expiry.                                               *)
(*                                                                         *)
(* `nodes` is ordered by node id, upwards; `health-history` by             *)
(* (computed_at, node, evaluation) and `alerts` by (last_seen_at, id),     *)
(* downwards.  A row here has an id, the time of its sort key (0 for a     *)
(* node) and a status that filters may select.                             *)
(*                                                                         *)
(* A request that is not authorized reads and changes nothing, so that who *)
(* may ask is left open here.                                              *)
(***************************************************************************)
EXTENDS Integers, FiniteSets, Sequences

LOCAL INSTANCE SequencesExt

CONSTANTS
  ApiClients, ApiRowIds,
  ApiStatuses,       \* the values a status filter tells apart
  ApiQueries,        \* resource, status (or "any"), from, to
  ApiStartRows,      \* what a listing may hold when the first page is asked for
  ApiLimits, ApiMaxLimit,
  ApiKeyFiles,       \* cursor key files: current and previous key
  CursorTtl,
  NoCursor, NoKey,
  MaxApiClock, MaxApiWrites, MaxApiStarts

VARIABLES apiRows, apiClock, apiWrites, server, walk

apiVars == <<apiRows, apiClock, apiWrites, server, walk>>

\* A row that is not stored yet, and one that is no longer stored.
NoApiRow == [at |-> -1, status |-> "none"]
GoneApiRow == [at |-> -1, status |-> "gone"]
Stored(row) == row \notin {NoApiRow, GoneApiRow}

-----------------------------------------------------------------------------
(* Cursors.                                                                *)

CursorExpiry(now) == ((now \div CursorTtl) + 2) * CursorTtl

\* CursorKeyring::from_private_file.
KeyringLoads(file) == file.previous # NoKey => file.previous.id # file.current.id

FindKey(ring, id) ==
  IF ring.current.id = id THEN {ring.current}
  ELSE IF ring.previous # NoKey /\ ring.previous.id = id THEN {ring.previous}
  ELSE {}

FilterHash(query) == [status |-> query.status, from |-> query.from, to |-> query.to]

EncodeCursor(query, row) ==
  [key |-> server.keys.current, expires |-> CursorExpiry(apiClock),
   resource |-> query.resource, after |-> row, filter |-> FilterHash(query),
   issued |-> apiClock]

DecodesAt(cursor, query, ring, now) ==
  /\ \E key \in FindKey(ring, cursor.key.id) : key = cursor.key
  /\ cursor.expires > now
  /\ cursor.resource = query.resource
  /\ cursor.filter = FilterHash(query)

-----------------------------------------------------------------------------
(* Pages.                                                                  *)

\* Whether row a comes before row b in the order the listing is returned in.
Precedes(resource, a, b) ==
  IF resource = "nodes" THEN a.id < b.id
  ELSE a.at > b.at \/ (a.at = b.at /\ a.id > b.id)

InFilters(query, row) ==
  /\ Stored(row)
  /\ query.status \in {"any", row.status}
  /\ query.resource = "nodes" \/ (query.from <= row.at /\ row.at < query.to)

Matching(query) ==
  {[id |-> i, at |-> apiRows[query.resource][i].at] :
     i \in {j \in ApiRowIds : InFilters(query, apiRows[query.resource][j])}}

\* The statement behind a page: filters, keyset condition, order and limit.
ListPage(query, after, limit) ==
  LET rest == {r \in Matching(query) : after = {} \/ \E a \in after : Precedes(query.resource, a, r)}
      sorted == SetToSortSeq(rest, LAMBDA a, b : Precedes(query.resource, a, b))
  IN SubSeq(sorted, 1, IF Len(sorted) < limit THEN Len(sorted) ELSE limit)

\* Fault: the cursor names the look-ahead row, which is then not returned.
NextCursorLookahead(query, rows, limit) ==
  IF Len(rows) > limit THEN EncodeCursor(query, rows[Len(rows)]) ELSE NoCursor

NextCursor(query, rows, limit) ==
  IF Len(rows) > limit THEN EncodeCursor(query, rows[limit]) ELSE NoCursor

Ids(rows) == [k \in 1..Len(rows) |-> rows[k].id]

\* The part every paged handler shares once its request is authorized.
AnswerPage(c) ==
  LET w == walk[c]
      rows == ListPage(w.query, IF w.cursor = NoCursor THEN {} ELSE {w.cursor.after}, w.limit + 1)
      shown == IF Len(rows) > w.limit THEN w.limit ELSE Len(rows)
      next == NextCursor(w.query, rows, w.limit)
      unchanged == IF w.cursor = NoCursor THEN {r.id : r \in Matching(w.query)} ELSE w.unchanged
  IN IF w.limit \notin 1..ApiMaxLimit
          \/ (w.cursor # NoCursor /\ ~DecodesAt(w.cursor, w.query, server.keys, apiClock))
       THEN walk' = [walk EXCEPT ![c].state = "refused"]
       ELSE walk' = [walk EXCEPT
              ![c] = [@ EXCEPT !.items = @ \o Ids(SubSeq(rows, 1, shown)),
                               !.cursor = next,
                               !.unchanged = unchanged,
                               !.state = IF next = NoCursor THEN "done" ELSE "walking"]]

Request(c, resource) ==
  /\ server.up
  /\ walk[c].query.resource = resource
  /\ walk[c].state \in {"ready", "walking"}
  /\ AnswerPage(c)
  /\ UNCHANGED <<apiRows, apiClock, apiWrites, server>>

ApiNodes(c) == Request(c, "nodes")

ApiHealthHistory(c) == Request(c, "health-history")

ApiAlerts(c) == Request(c, "alerts")

-----------------------------------------------------------------------------
(* The controller writes while clients read, and the server restarts.      *)

\* Only writes to a listing that some client is walking are told apart.  A walk
\* keeps the rows that were written since its first page and those that came to
\* sort further back.
Writes(resource, i, row) ==
  /\ \E c \in ApiClients : walk[c].query.resource = resource
  /\ row # apiRows[resource][i]
  /\ apiWrites < MaxApiWrites
  /\ apiWrites' = apiWrites + 1
  /\ apiRows' = [apiRows EXCEPT ![resource][i] = row]
  /\ walk' = [c \in ApiClients |->
       IF walk[c].query.resource = resource
         THEN [walk[c] EXCEPT !.unchanged = @ \ {i},
                              !.back = IF Stored(row) /\ row.at < apiRows[resource][i].at
                                       THEN @ \cup {i} ELSE @]
         ELSE walk[c]]
  /\ UNCHANGED <<apiClock, server>>

\* A node is registered, removed, or shows another effective status.
NodeRowChanges(i) ==
  \E row \in {NoApiRow} \cup [at : {0}, status : ApiStatuses] : Writes("nodes", i, row)

\* A sample is only ever appended, some time after it was computed, or pruned.
HistoryRowChanges(i) ==
  \/ /\ apiRows["health-history"][i] = NoApiRow
     /\ \E s \in ApiStatuses, at \in 0..apiClock : Writes("health-history", i, [at |-> at, status |-> s])
  \/ Stored(apiRows["health-history"][i]) /\ Writes("health-history", i, GoneApiRow)

\* evaluate_alert_records and run_alert_resolve take last_seen_at from the clock
\* before they read the row, and the store compares the row but not the time.
AlertSeen(i) ==
  /\ apiRows["alerts"][i] # GoneApiRow
  /\ \E s \in ApiStatuses, at \in 0..apiClock : Writes("alerts", i, [at |-> at, status |-> s])

\* run_alert_silence leaves last_seen_at alone.
AlertSilenced(i) ==
  /\ Stored(apiRows["alerts"][i])
  /\ \E s \in ApiStatuses : Writes("alerts", i, [apiRows["alerts"][i] EXCEPT !.status = s])

AlertRowChanges(i) ==
  \/ AlertSeen(i) \/ AlertSilenced(i)
  \/ Stored(apiRows["alerts"][i]) /\ Writes("alerts", i, GoneApiRow)

\* The process starts with the files the operator has installed, or does not
\* start: the cursor keys are refused, or the rest of the configuration or the
\* database is (passes is false).
ApiRestarts(keys, passes) ==
  /\ server.starts < MaxApiStarts
  /\ server' = [up |-> KeyringLoads(keys) /\ passes, keys |-> keys, starts |-> server.starts + 1]
  /\ UNCHANGED <<apiRows, apiClock, apiWrites, walk>>

ApiTick ==
  /\ apiClock < MaxApiClock
  /\ apiClock' = apiClock + 1
  /\ UNCHANGED <<apiRows, apiWrites, server, walk>>

-----------------------------------------------------------------------------
ApiInit ==
  /\ \E rows \in ApiStartRows :
       apiRows = [r \in {"nodes", "health-history", "alerts"} |-> rows]
  /\ apiClock = 0
  /\ apiWrites = 0
  /\ \E keys \in ApiKeyFiles :
       KeyringLoads(keys) /\ server = [up |-> TRUE, keys |-> keys, starts |-> 0]
  /\ walk \in [ApiClients ->
       {[query |-> q, limit |-> n, cursor |-> NoCursor, items |-> <<>>, unchanged |-> {},
         back |-> {}, state |-> "ready"] : q \in ApiQueries, n \in ApiLimits}]

ApiNext ==
  \/ \E c \in ApiClients : ApiNodes(c) \/ ApiHealthHistory(c) \/ ApiAlerts(c)
  \/ \E i \in ApiRowIds : NodeRowChanges(i) \/ HistoryRowChanges(i) \/ AlertRowChanges(i)
  \/ \E keys \in ApiKeyFiles, passes \in BOOLEAN : ApiRestarts(keys, passes)
  \/ ApiTick

ApiSpec == ApiInit /\ [][ApiNext]_apiVars

-----------------------------------------------------------------------------
(* Properties.                                                             *)

\* When a walk ends it has returned every row that matched on the first page
\* and was not written since.  It returns a row twice only if the row came to
\* sort further back during the walk: a node and a sample never do, an alert
\* does when a late evaluation moves last_seen_at back.  This holds whichever
\* rows come, go or move between the pages and whichever restarts and key
\* rotations happen.  A cursor lasts at least one and less than two periods
\* (docs/api.md: "24-48 hours after issuance") while its key is in the keyring.
WalkExact ==
  \A c \in ApiClients :
    LET w == walk[c]
        age == apiClock - w.cursor.issued
        kept == w.cursor.key \in {server.keys.current, server.keys.previous}
    IN /\ \A j, k \in DOMAIN w.items : j # k /\ w.items[j] = w.items[k] => w.items[j] \in w.back
       /\ w.back # {} => w.query.resource = "alerts"
       /\ w.state = "done" => \A i \in w.unchanged : \E k \in DOMAIN w.items : w.items[k] = i
       /\ w.state = "walking" =>
            /\ age < CursorTtl /\ kept => DecodesAt(w.cursor, w.query, server.keys, apiClock)
            /\ age >= 2 * CursorTtl => ~DecodesAt(w.cursor, w.query, server.keys, apiClock)
=============================================================================
