------------------------------ MODULE PublicHosts ------------------------------
(***************************************************************************)
(* What the marketplace promises of the custom hosts of its stores: a host *)
(* is one store's, which keeps it until it takes another; it is served     *)
(* with its certificate, and after it was found to point at the store; and *)
(* the store is told of a host that was served.  A store that has once     *)
(* given its host up takes the next one over with what was begun for the   *)
(* old one.  Domains implements it.                                        *)
(***************************************************************************)
CONSTANTS Stores, Hosts, NoHost

VARIABLES
  host,       \* the host each store holds
  served,     \* the stores that are served under their host
  certified,  \* the stores whose host has its certificate
  found,      \* history: the <<store, host>> found to point at the store
  shown,      \* history: the <<store, host>> that were served
  told,       \* history: the <<store, host>> the stores were told of
  released    \* history: the stores that gave a host up

vars == <<host, served, certified, found, shown, told, released>>

Init ==
  /\ host = [s \in Stores |-> NoHost]
  /\ served = {} /\ certified = {}
  /\ found = {} /\ shown = {} /\ told = {}
  /\ released = {}

\* Only once it has given a host up does a store take another, and never one that
\* some store holds; what it held before stays its own until then.
Claim(s, h) ==
  /\ host[s] = NoHost \/ s \in released
  /\ \A o \in Stores \ {s} : host[o] # h
  /\ host' = [host EXCEPT ![s] = h]
  /\ served' = served \ {s} /\ certified' = certified \ {s}
  /\ UNCHANGED <<found, shown, told, released>>

Find(s, h) ==
  /\ h = host[s] \/ s \in released
  /\ found' = found \cup {<<s, h>>}
  /\ UNCHANGED <<host, served, certified, shown, told, released>>

Serve(s) ==
  /\ host[s] # NoHost
  /\ <<s, host[s]>> \in found \/ s \in released
  /\ served' = served \cup {s} /\ certified' = certified \cup {s}
  /\ shown' = shown \cup {<<s, host[s]>>}
  /\ UNCHANGED <<host, found, told, released>>

\* A host is looked up again, or its certificate asked for: the store is not
\* served meanwhile.
Suspend(s) ==
  /\ served' = served \ {s}
  /\ certified' \in {certified, certified \ {s}}
  /\ UNCHANGED <<host, found, shown, told, released>>

GiveUp(s) ==
  /\ host[s] # NoHost
  /\ served' = served \ {s} /\ certified' = certified \ {s}
  /\ released' = released \cup {s}
  /\ UNCHANGED <<host, found, shown, told>>

Tell(s) ==
  /\ <<s, host[s]>> \in shown \/ s \in released
  /\ told' = told \cup {<<s, host[s]>>}
  /\ UNCHANGED <<host, served, certified, found, shown, released>>

Next ==
  \E s \in Stores :
    \/ Serve(s) \/ Suspend(s) \/ GiveUp(s) \/ Tell(s)
    \/ \E h \in Hosts : Claim(s, h) \/ Find(s, h)

Spec == Init /\ [][Next]_vars

\* What follows of it: no two stores hold one host, what is served is certified,
\* and was found to point at its store unless the store had another host before.
HostsAreKept ==
  /\ \A s, o \in Stores : host[s] # NoHost /\ host[s] = host[o] => s = o
  /\ served \subseteq certified
  /\ \A s \in served \ released : <<s, host[s]>> \in found
  /\ \A a \in told : a[1] \in released \/ a \in shown
===============================================================================
