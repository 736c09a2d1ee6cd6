------------------------------- MODULE PubSub -------------------------------
(***************************************************************************)
(* What the splitter's hub promises its users, with none of how it is done:*)
(* a set of subscriptions, each with a filter; a published message reaches *)
(* exactly the current subscribers whose filter accepts it; a handle, once *)
(* given back, is never issued again; and `interest', what the hub asks of *)
(* its source, is at every moment the most general filter the current      *)
(* subscribers need.                                                       *)
(***************************************************************************)
EXTENDS ModesFilter

CONSTANTS
  Handles,    \* what subscribers are known by
  Filters,    \* the filters they may ask for
  Messages    \* what may be published

VARIABLES
  subs,       \* handle -> filter, for the current subscribers
  issued,     \* the handles ever issued
  interest,   \* the filter handed to the source
  delivered   \* the last publication: the message and who was given it

vars == <<subs, issued, interest, delivered>>

Interest(s) == CombineAll({s[h] : h \in DOMAIN s})

Init ==
  /\ subs = [h \in {} |-> EmptyFilter]
  /\ issued = {}
  /\ interest = EmptyFilter
  /\ delivered = [to |-> {}, msg |-> Plain("STATUS")]

\* A fresh handle h subscribes with filter f.
Subscribe(h, f) ==
  /\ h \notin issued
  /\ issued' = issued \cup {h}
  /\ subs' = [k \in DOMAIN subs \cup {h} |-> IF k = h THEN f ELSE subs[k]]
  /\ interest' = Interest(subs')
  /\ UNCHANGED delivered

\* A subscriber changes its filter.
Resubscribe(h, f) ==
  /\ h \in DOMAIN subs
  /\ subs' = [subs EXCEPT ![h] = f]
  /\ interest' = Interest(subs')
  /\ UNCHANGED <<issued, delivered>>

\* A subscriber leaves.
Unsubscribe(h) ==
  /\ h \in DOMAIN subs
  /\ subs' = [k \in DOMAIN subs \ {h} |-> subs[k]]
  /\ interest' = Interest(subs')
  /\ UNCHANGED <<issued, delivered>>

\* A message reaches the subscribers that want it.
Publish(m) ==
  /\ delivered' = [to |-> {h \in DOMAIN subs : Accepts(subs[h], m)},
                   msg |-> m]
  /\ UNCHANGED <<subs, issued, interest>>

Next ==
  \/ \E h \in Handles, f \in Filters : Subscribe(h, f) \/ Resubscribe(h, f)
  \/ \E h \in DOMAIN subs : Unsubscribe(h)
  \/ \E m \in Messages : Publish(m)

Spec == Init /\ [][Next]_vars
=============================================================================
