----------------------------- MODULE TraceLinks -----------------------------
(***************************************************************************)
(* extractLinks (services/trace-processor/extract_links.go) and the link   *)
(* fingerprint processNormalTrace computes from its result.  A trace is a  *)
(* set of hops, answered or timed out; its links join the hops of each     *)
(* probe in the order of their TTLs.  Go visits the probes in any order,   *)
(* and sort.Slice may leave hops of the same TTL in any order.             *)
(***************************************************************************)
EXTENDS Integers, FiniteSetsExt, Subsequences

CONSTANTS Probe, MaxTtl, Addr,
          Timeout,   \* the address of a hop that did not answer
          MaxHops    \* bound on the hops of a trace

ASSUME LinksAssumption ==
  /\ MaxTtl \in Nat /\ MaxHops \in Nat
  /\ Timeout \notin Addr

Hop == [probe : Probe, ttl : 1..MaxTtl, addr : Addr \cup {Timeout}]

VARIABLES hops,     \* the payload
          groups,   \* per probe not visited yet, its hops, sorted and deduplicated
          seen,
          links

linksVars == <<hops, groups, seen, links>>

\* A TTL of a probe is represented by one of its hops: the first after sorting.
Picks(trace) ==
  {kept \in SUBSET trace :
     \A h \in trace : \E k \in kept :
       {j \in kept : j.probe = h.probe /\ j.ttl = h.ttl} = {k}}

\* The hops of probe p in the order of their TTLs.
ByTtl(kept, p) ==
  LET ttls == ElementsAt([t \in 1..MaxTtl |-> t], {h.ttl : h \in {k \in kept : k.probe = p}})
  IN  [i \in DOMAIN ttls |-> CHOOSE h \in kept : h.probe = p /\ h.ttl = ttls[i]]

Grouped(kept) == [p \in {h.probe : h \in kept} |-> ByTtl(kept, p)]

\* The payload is any trace; grouping, sorting and deduplication are done.
LinksInit ==
  /\ hops \in UNION {kSubset(k, Hop) : k \in 0..MaxHops}
  /\ \E kept \in Picks(hops) : groups = Grouped(kept)
  /\ seen = {} /\ links = <<>>

Link(src, dst) ==
  [probe |-> src.probe, src |-> src.addr, dst |-> dst.addr, gap |-> dst.ttl - src.ttl]

\* Mutant of Key: links are deduplicated across probes.
KeyUnscoped(link) == <<link.src, link.dst>>

Key(link) == <<link.probe, link.src, link.dst>>

\* Mutant of Chain: hops that timed out are not linked.
ChainAnswered(path) ==
  SelectSeq([i \in 1..(Len(path) - 1) |-> Link(path[i], path[i + 1])],
            LAMBDA link : Timeout \notin {link.src, link.dst})

Chain(path) == [i \in 1..(Len(path) - 1) |-> Link(path[i], path[i + 1])]

\* The links of a probe that were not seen, in this chain or before.
Unseen(chain) ==
  ElementsAt(chain, {i \in DOMAIN chain :
                       /\ Key(chain[i]) \notin seen
                       /\ \A j \in 1..(i - 1) : Key(chain[j]) # Key(chain[i])})

\* One round of the loop over groups.
Visit(p) ==
  /\ p \in DOMAIN groups
  /\ LET chain == Chain(groups[p])
     IN  /\ links' = links \o Unseen(chain)
         /\ seen' = seen \cup {Key(chain[i]) : i \in DOMAIN chain}
  /\ groups' = [q \in DOMAIN groups \ {p} |-> groups[q]]
  /\ UNCHANGED hops

LinksNext == \E p \in Probe : Visit(p)

LinksSpec == LinksInit /\ [][LinksNext]_linksVars

\* ip_pairs, sorted: how often each pair of answering hops occurs.
LinkFingerprint ==
  [pair \in Addr \X Addr |->
     Cardinality({i \in DOMAIN links : <<links[i].src, links[i].dst>> = pair})]

-----------------------------------------------------------------------------
(* Properties *)

LinksTypeOK ==
  /\ hops \subseteq Hop
  /\ DOMAIN groups \subseteq Probe
  /\ \A p \in DOMAIN groups : groups[p] \in Seq(Hop)
  /\ links \in Seq([probe : Probe, src : Addr \cup {Timeout}, dst : Addr \cup {Timeout},
                    gap : 1..MaxTtl])

Done == DOMAIN groups = {}

\* Hops of a probe that are next to each other: no TTL of the probe between.
Adjacent(g, h) ==
  /\ g.probe = h.probe /\ g.ttl < h.ttl
  /\ ~\E m \in hops : m.probe = g.probe /\ g.ttl < m.ttl /\ m.ttl < h.ttl

\* Every way to choose one hop per TTL gives the links between neighbours.
Pairs(kept, p) ==
  LET near == {gh \in kept \X kept : gh[1].probe = p /\ Adjacent(gh[1], gh[2])}
  IN {<<gh[1].addr, gh[2].addr>> : gh \in near}

\* The fingerprint is that of the trace: whatever order the probes come in, it
\* counts each pair of answering neighbours once per probe that has it.
FingerprintIsTheTraces ==
  Done => \E kept \in Picks(hops) :
            \A pair \in Addr \X Addr :
              LinkFingerprint[pair] = Cardinality({p \in Probe : pair \in Pairs(kept, p)})

\* The links of a probe are the pairs of its neighbouring hops, timeouts
\* included, none missing and none twice.
LinksJoinNeighbours ==
  Done => \E kept \in Picks(hops) :
            \A p \in Probe :
              LET own == {i \in DOMAIN links : links[i].probe = p}
              IN /\ {<<links[i].src, links[i].dst>> : i \in own} = Pairs(kept, p)
                 /\ \A i, j \in own :
                      links[i].src = links[j].src /\ links[i].dst = links[j].dst => i = j

=============================================================================
