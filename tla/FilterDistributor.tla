-------------------------- MODULE FilterDistributor --------------------------
(***************************************************************************)
(* modes::FilterDistributor (modes_filter.h, modes_filter.cc): the hub     *)
(* between the one input and the many outputs.  A client that leaves is    *)
(* only marked deleted; the next broadcast erases it.  Every change to the *)
(* live clients recomputes the combined filter and passes it to            *)
(* filter_notifier, which is BeastInput::set_filter.                       *)
(*                                                                         *)
(* Everything runs on the one thread of io_service::run, and no notifier   *)
(* calls back into the distributor, so each method is one step.            *)
(***************************************************************************)
EXTENDS ModesFilter

CONSTANTS
  MaxHandle,    \* bound: add_client calls (next_handle is 32 bits wide)
  Filters,      \* the filters clients ask for
  Messages      \* the messages that are broadcast

ASSUME DistributorAssumption ==
  /\ MaxHandle \in Nat
  /\ Filters \subseteq Filter /\ Messages \subseteq Message

VARIABLES
  clients,      \* handle -> [filter, deleted]
  next_handle,
  filter,       \* the argument of the last filter_notifier call
  delivered     \* the last broadcast: its message and the notified handles

vars == <<clients, next_handle, filter, delivered>>

Handle == 0..MaxHandle-1

Client == [filter : Filter, deleted : BOOLEAN]

LiveIn(c) == {h \in DOMAIN c : ~c[h].deleted}
Live == LiveIn(clients)

\* update_upstream_filter: the combination of the filters of the clients of c
\* that are not deleted.
upstream_filter(c) == CombineAll({c[h].filter : h \in LiveIn(c)})

-----------------------------------------------------------------------------

Init ==
  /\ clients = [h \in {} |-> [filter |-> EmptyFilter, deleted |-> FALSE]]
  /\ next_handle = 0
  /\ filter = EmptyFilter
  /\ delivered = [to |-> {}, msg |-> Plain("STATUS")]

\* A mutation: handle h = ++next_handle.
add_client_preincrement(f) ==
  /\ next_handle < MaxHandle
  /\ next_handle' = next_handle + 1
  /\ clients' = [h \in DOMAIN clients \cup {next_handle'} |->
                   IF h = next_handle' THEN [filter |-> f, deleted |-> FALSE]
                                       ELSE clients[h]]
  /\ filter' = upstream_filter(clients')
  /\ UNCHANGED delivered

add_client(f) ==
  /\ next_handle < MaxHandle
  /\ next_handle' = next_handle + 1
  /\ clients' = [h \in DOMAIN clients \cup {next_handle} |->
                   IF h = next_handle THEN [filter |-> f, deleted |-> FALSE]
                                      ELSE clients[h]]
  /\ filter' = upstream_filter(clients')
  /\ UNCHANGED delivered

\* A mutation: the new filter is stored but not passed upstream.
update_client_filter_silent(h, f) ==
  /\ h \in Live
  /\ clients[h].filter # f
  /\ clients' = [clients EXCEPT ![h].filter = f]
  /\ UNCHANGED <<next_handle, delivered, filter>>

\* The early returns (unknown handle, deleted client, unchanged filter) are
\* the guard: they change nothing.
update_client_filter(h, f) ==
  /\ h \in Live
  /\ clients[h].filter # f
  /\ clients' = [clients EXCEPT ![h].filter = f]
  /\ filter' = upstream_filter(clients')
  /\ UNCHANGED <<next_handle, delivered>>

remove_client(h) ==
  /\ h \in Live
  /\ clients' = [clients EXCEPT ![h].deleted = TRUE]
  /\ filter' = upstream_filter(clients')
  /\ UNCHANGED <<next_handle, delivered>>

\* The clients after a broadcast has erased the deleted ones.
Purged == [h \in Live |-> clients[h]]

\* A mutation: a broadcast that erases deleted clients only after it has
\* served them.
broadcast_serves_deleted(m) ==
  /\ delivered' = [to |-> {h \in DOMAIN clients : Accepts(clients[h].filter, m)},
                   msg |-> m]
  /\ clients' = Purged
  /\ UNCHANGED <<next_handle, filter>>

\* Every live client whose filter accepts m is notified; the deleted ones are
\* erased on the way.
broadcast(m) ==
  /\ delivered' = [to |-> {h \in Live : Accepts(clients[h].filter, m)}, msg |-> m]
  /\ clients' = Purged
  /\ UNCHANGED <<next_handle, filter>>

Next ==
  \/ \E f \in Filters : add_client(f)
  \/ \E h \in Live : \E f \in Filters : update_client_filter(h, f)
  \/ \E h \in Live : remove_client(h)
  \/ \E m \in Messages : broadcast(m)

Spec == Init /\ [][Next]_vars

-----------------------------------------------------------------------------

\* Type correctness of the distributor's state.
TypeOK ==
  /\ next_handle \in 0..MaxHandle
  /\ DOMAIN clients \subseteq 0..next_handle-1
  /\ clients \in [DOMAIN clients -> Client]
  /\ filter \in Filter
  /\ delivered \in [to : SUBSET (0..next_handle-1), msg : Message]

\* Whatever a live client's filter accepts, the filter last passed upstream by
\* update_upstream_filter accepts too: no client is starved because another
\* one joined, changed its mind or left.
UpstreamCoversClients ==
  \A h \in Live : \A m \in Message :
    Accepts(clients[h].filter, m) => Accepts(filter, m)

Hub == INSTANCE PubSub WITH
         Handles <- Handle,
         subs <- [h \in Live |-> clients[h].filter],
         issued <- 0..next_handle-1,
         interest <- filter,
         delivered <- delivered

\* The distributor, with its deleted marks and lazy erasure, implements the
\* publish/subscribe hub: a message goes exactly to the current clients that
\* want it, no handle is reused, and the source is always asked for exactly
\* the combination of the current clients' filters.
ImplementsPubSub == Hub!Spec
=============================================================================
