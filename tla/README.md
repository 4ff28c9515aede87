# TLA+ models of the identity-aware eBPF firewall

The firewall is a Go agent that loads BPF programs and fills their maps, and the
programs themselves, which judge packets on every CPU while the agent changes the
maps under them. This directory models the parts whose correctness depends on how
those two sides, and the agent's goroutines among themselves, interleave and fail.
Everything is translated from the source; `PROJECT.json` names, for every
definition, the lines it stands for.

## 1. The system

| Component | State | Operations | Talks to |
|---|---|---|---|
| Policy compiler `pkg/compiler/compiler.go`, `dsl.go` | none | `Parse`, `Validate`, `Compile` | called by the control server and by `main` |
| `MapSwapper` `pkg/compiler/atomic_swap.go` | one mutex per value | `ApplyPolicyAtomic`: clear the next generation, stage every entry, switch, purge the old generation; roll back on errors | loader |
| Loader `pkg/bpf/loader.go` | the BPF objects, `l.mu` | `Get/SetActiveGeneration`, `Stage*Rule`, `ClearGenerationRules`, direct `Add*`/`Remove*` edits, `ReadRingbuf`, statistics, `LoadSockops`, `Close` | BPF maps |
| XDP program `bpf/xdp_firewall.c` | rule maps keyed by generation, counters, a ring | reads the generation, then three lookups, then a verdict, with an audit record | maps shared with the loader |
| TC program `bpf/tc_firewall.c` | `conntrack_map` (LRU) | SYN inserts two entries, ACK promotes, FIN/RST deletes, anything untracked is dropped | maps shared with the loader |
| Socket programs `bpf/sockops_identity.c`, `bpf/proxy_redirect.c` | a sockhash of local sockets | register, redirect between local peers | kernel sockets |
| Audit pipeline `ringbuf.go`, `audit.go`, `ReadRingbuf` | the rings, a bounded store | reserve/submit, read, decode, `Add`, `Events` | read by the control server |
| Conntrack mirror `pkg/conntrack/table.go` | a map of flows | `SyncFromKernel` | loader, agent's log |
| Control server `pkg/control/server.go`, `client.go` | a listener, one goroutine per connection | `apply_policy`, `get_status`, `dump_maps` | compiler, swapper, loader, store |
| RBAC `pkg/security/rbac.go`, `peercred.go` | registered uids and gids | `ResolveRole`, `EvaluatePermission`, `Add*UID` | control server |
| Agent `cmd/firewall-agent/main.go` | a context | start-up rules and policy, reader, periodic log, shutdown | everything |
| Dashboard `cmd/firewall-tui`, `firewall-ctl` | the view's state | poll `get_status`, scroll, filter; one-shot commands | control socket |
| Identity resolver, capability bounding, generated bindings, test harness | none of their own | system calls | |

What is hard here:

- **concurrency**: packets are judged on all CPUs while a reload stages, switches and
  purges; control connections apply policies at the same time, and so does `main`
  at start-up with a `MapSwapper` of its own; TC runs on several CPUs over one LRU map;
- **failure**: a staging stops half-way (IPv6 prefix, full map, unresolved cgroup), the
  switch itself fails, a ring is full, the LRU map evicts one half of a flow; an agent
  process dies at any point and leaves pins, a qdisc and filters to the next one;
- **ordering**: switch before or after the last entry and the purge; records submitted in
  another order than reserved; status replies that overtake each other; a value read before
  a lock is released and used after it;
- **numbers**: the generation is a `uint32` that wraps; stores and maps at their limit;
  two encodings of one enumeration and of one struct.

What makes each part correct, in one line each: a reload is all or nothing and packets
never see part of it; direct edits and reloads do not damage each other; a flow is
tracked exactly from its SYN to its teardown; the audit store holds the latest events in
order and the dashboard follows it; only operators change the policy, and what is installed
means what was written; an agent that ends in good order leaves nothing behind, and one that
starts never takes what a dead one left for its own; a redirected message reaches its own peer.
The hazards behind these, each at its line, are listed in `PROJECT.json`.

## 2. Modules

```
PolicyTable ----------+--> PolicyReload --> DirectRules
 (rules, packets,     |      |  implements AtomicPolicy
  what a table drops) |      +--> PolicyReloadProofs --+--> PolicyReloadRefines
                      |                                +--> DirectRulesProofs (with DirectRules)
                      +--> PolicyCompiler --> ControlServer --> ControlServerProofs
                                                implements AtomicPolicy
Conntrack     --> ConntrackProofs
AuditPipeline --+--> AuditPipelineProofs --+--> DashboardProofs
                +--> Dashboard ------------+
SockRedirect  --> AgentLifecycle --> AgentLifecycleProofs
MC<Module>: the instance TLC checks      <Module>Proofs: its theorems
```

**PolicyTable.** Keys of the three rule maps, tables (one generation's view of the maps),
compiled policies as sequences of entries, packets as the keys their lookups can hit, and
`Drops(table, packet)`: the order and the conditions of the lookups of
`xdp_firewall_func`. `Realizes(table, policy)` says that a table holds, under every key,
the last entry the policy has for it. A packet's `src` is the set of prefixes that contain
its address, so the LPM trie's longest match is abstracted to "some prefix matches": the
verdict does not depend on which one, only the rule id reported does.

**PolicyReload.** Each `ApplyPolicyAtomic` call is a process: `Call`, `Lock`,
`ReadGeneration` (with `curGen + 1` modulo `GenCount`), `ClearLock`/`ClearKey`/`ClearDone`
(the loader's mutex held, one deletion per step), `StageRule` or `StageFail` per entry,
`SetActiveGeneration` or its failure, the purge or the rollback, `Return`. Each CPU runs
`PacketArrives` (the read of the generation), `LookupCgroup`, `LookupLpm`, `LookupPort`,
`PacketLeaves`. Appliers are mapped to the `MapSwapper` they use by `SwapperOf`, because
the agent has two. `installed`, `mayDrop`, `mayPass` and `lapped` (so many reloads ran
while the packet was in the hook that one took the packet's generation number again) are
history variables.

**AtomicPolicy.** The abstract specification: calls are pending, and one step installs a
whole policy or rejects it. `PolicyReload` maps to it with `table <- kmap[activeGen]`.

**DirectRules** extends PolicyReload with the five direct edits of the loader, each of
which reads the generation, lets `l.mu` go, and takes it again for one Put or Delete.

**Conntrack.** One step per map operation of `tc_firewall_func`. A pointer returned by a
lookup is kept (`ptr`) and becomes dangling when another CPU deletes, replaces or evicts
its entry; a store through it then no longer reaches that entry, and what it reads is
arbitrary. The LRU victim is arbitrary. `credit`, `overlap`, `secure` and `armed` are history
variables that let the properties speak about "a SYN came and no teardown ran entirely
after it" and "the flow was open all the time this segment was in the hook". The module
also has the mirror's translation of the kernel's state numbers; the control server's, which
is another one, is the mutant of it.

**AuditPipeline.** Two rings, because the TC objects are loaded without map replacement;
the reservation order is the reading order and a busy record blocks the reader. The
record is modelled by words, with the alignment hole the C compiler puts before the
64-bit `cgroup_id`, and `Decode` reads it the way the Go struct lies on it. The reader ends
when the ring is closed and, for good, at any other read error (`ReadFails`), which `main`
only logs.

**Dashboard** extends AuditPipeline with the Bubble Tea program: `Poll` sends a `get_status`
without waiting for the previous reply (a tick, the key `r`, `Init`), `Answer` is the handler
copying the store with `Events`, `Deliver` is `Update(statusMsg)` for any reply that has
arrived, and there is one action per key that changes the stream, its selection or its
filter. The selection is an index into the list the filter leaves. A filter text is the set of events it matches, and `filteredEvents` the set of
positions of the list it leaves. The prompt between `/` and Enter is
one action, `Filter`: while it is open only replies change anything else. `moved` records
whether the operator has moved the selection since the program last placed it.

**SockRedirect.** `Established` is the sockops callback of one end of a local connection:
it registers the socket under `RegKey` in the map of every attached program, unless the key
is taken or the map full. `PeerKey` is what the sk_msg program looks up when an end sends,
and `Destination` where the message goes. Ports carry their byte order. sockops swaps its
`remote_port` with `bpf_ntohl`, sk_msg uses its own as it comes; in which order it comes is
the parameter `o` of `PeerKey`, and `RemotePortOrder` the order `linux/bpf.h` declares,
network order.

**AgentLifecycle** extends SockRedirect with the agent processes. A process goes through the
steps of `NewFirewallLoader`, optionally `LoadSockops`, operation and `Close`; each step that
checks an error can fail, and `Die` ends a process anywhere without `Close` (the error
returns followed by `log.Fatalf`, a refused start-up rule, a signal before `signal.Notify`,
a crash). What is held by a descriptor goes with the process; the clsact qdisc, its filters
and the pins stay. Processes may overlap, with one restriction the kernel makes: an
interface has one XDP link. `solo` records that a process had the host to itself.

**PolicyCompiler.** `Validate` and `Compile` as operators, and beside them, stated on the rules and
not on the entries, what a policy says of a packet: a rule applies when every selector it
lists matches (`Applies`), and the packet gets the action of a rule that applies or the
default (`Says`). If rules of both actions apply either is accepted, since no document gives
one precedence. CIDR texts map to keys, so one prefix may be spelled in several ways. `Plain`
are the policies the maps can express: the default is allow, and a rule denies CIDRs, or denies
cgroups, or lists ports. The sample policy in `configs/` and the valid ones in the tests are plain.

**ControlServer.** Connections go through accept, peer credentials and role, decoding,
permission check, dispatch, apply, reply, close; uids are registered and the server is shut
down at any time. The permission check ignores the case of the command, the dispatch does
not. Applying is one step here: the connections refine `AtomicPolicy` too, with the compiled
policy as the request, and that is what PolicyReload implements for appliers that share a swapper,
as the connections do.

## 3. What is checked

| Run | Instance | States | Shows |
|---|---|---|---|
| `reload` | 2 connections, 1 CPU, 3 calls, 3 policies (one fills the trie, one overwrites a key it staged, one fails after an entry), 2 slots per map, **3** generations, so that the third reload wraps | 59,751 | `TypeOK`, `ActiveComplete`, `NoResidue`, `DropSound`, `PassSoundWhileActive`, `AtomicReload` (refinement), `ApplyReturns` |
| `direct_rules` | 2 connections, `main` editing, 3 calls, 3 edits | 858,970 | `EditTypeOK`, `UneditedComplete` |
| `conntrack` | 2 flows, 2 CPUs, 5 segments, 3 slots (one less than two flows need) | 834,634 | `TypeOK`, `NoGhostFlow`, `NoSpuriousDrop`, `MirrorNamesState` |
| `audit` | 2 CPUs, rings and store of 2, 3 verdicts, a dashboard with 2 requests under way and one filter text | 237,165 | `DashTypeOK`, `StoreIsRecent`, `SelectionFollows`, `XdpVerdictsExplained`, `ReaderStops`, `CatchesUp`, `TurnsOffline` |
| `agent` | 2 agent processes, 2 local connections to one server port (symmetric), 3 socket slots for 4 ends | 639,872 | `AgentTypeOK`, `OwnFilter`, `CleanExit`, `SockopsAllOrNothing`, `NeverMisdelivered` |
| `control` | 2 connections, 3 peers and no credentials, 6 policies, 10 requests, one uid to register | 204,285 | `TypeOK`, `ResponsesTruthful`, `PlainPoliciesEnforced`, `RuleIdsExplain`, `OnlyOperatorsInstall`, `ServerAppliesAtomically` (refinement) |

Why these bounds are enough to be interesting: two appliers are the least that race, and
three calls let a failed one lie between two that succeed; with two slots per map a policy
fills the trie that both generations share; one CPU suffices in `reload` because CPUs only
read what appliers write; with three generation numbers a packet can be overtaken by the
counter, which the purely old and new cases never show; five segments are a SYN, its ACK, a
teardown and a second opening with a segment to spare; three verdicts overfill a ring of two
and evict from a store of two, and two requests are the least whose replies can change
places; two processes are a dead one and its successor, or an old one closing while a new
one starts, and with three socket slots one end of a connection stays unregistered.

Deadlock is checked in `reload`, where packets keep coming; the other instances end when
their bounds are used up or the agent has shut down.

Every property of a passing run is shown able to fail: `PROJECT.json` lists for each a
plausible slip in the code (a forgotten unlock, a switch one entry early, no rollback,
one deletion instead of two, ...) under which TLC finds it violated.

### Disagreements between the code and what it says of itself

| Run | The code | What is said |
|---|---|---|
| `boot_race` | `main` applies the start-up policy through a `MapSwapper` of its own while the control server already applies others: two mutexes exclude nothing, and the active generation can be a mixture of two policies | "atomically switches active generation" (`atomic_swap.go:27`) |
| `in_flight` | the old generation is purged right after the switch; a packet that read it before finds no rules and passes although both policies drop it | "Updates eBPF map generations atomically" (`README.md:37`) |
| `stale_edit` | `AddBlockCIDR` and its like use a generation read before the lock was released; after a switch in between they succeed without effect | "for active generation" (`loader.go:125`) |
| `audit_tc` | the TC program's ring is not the one that is read | "every packet drop and pass verdict" (`README.md:135`) |
| `peer_order` | `proxy_redirect.c:59` uses `remote_port` as it comes, in network order as `linux/bpf.h` declares it, and looks up a key no socket is registered under | "the raw access here produce matching keys" (`proxy_redirect.c:53`) |
| `allow_rule` | the blocklist of CIDRs (and that of cgroups) holds no action, so an allow rule blocks | `// "allow" or "deny"` (`dsl.go:23`) |

Two more are plain from the source and have no run. `get_status` and `dump_maps` decode state 3 as
CLOSED (`server.go:263-266`, `310-313`) where `state_machine.h:11` defines 3 as ESTABLISHED. And the Go
`AuditEvent` (`ringbuf.go:11`) lacks the alignment hole of `struct audit_event`, so `CgroupID`
and `IdentityID` are read from the wrong words.

`peer_order` needs only two sockets and one agent; `NothingRedirectedHolds` (section 4) shows that
it is so for every connection and that redirection, in that byte order, never happens. What `agent` checks,
`NeverMisdelivered`, holds in either order: what is redirected goes to the right socket.

`allow_rule` installs one allow rule with a CIDR. Three more kinds of policy are accepted and not
enforced as written: `defaultAction: deny`, which is validated and stored (`compiler.go:109`) and then
read by nobody; a rule with several selectors, which blocks on each of them alone; and a rule without
CIDRs, cgroups and ports, which compiles to nothing. `Plain` leaves out these and allow rules with CIDRs or
cgroups, and `control` shows that every other policy means what it says.

`in_flight` needs no two connections to reload at once; `reload` shows the other half, that
no packet is dropped by rules that were not in force while it was in the hook, and that the purge of
the packet's generation is the only way a packet passes wrongly.

### Fairness

- `PolicyReload`: weak fairness of every step of a call that has begun (the Go scheduler
  runs goroutines that are ready, map operations return), and strong fairness of `Lock`:
  Go's `sync.Mutex` goes into starvation mode after 1 ms and hands itself to the waiter.
  No fairness of packets or of new calls.
- `AuditPipeline`: a BPF program runs to its end (`Submit`), and the reader, its handler
  and the goroutine that closes it run; reading, finding the ring closed and handling are one
  goroutine and share one condition. No fairness of verdicts or of the operator.
- `Dashboard`: ticks keep coming, the control server's goroutine answers, and the oldest
  outstanding reply reaches the message loop; a later one may overtake it any number of times.
  No fairness of keys.
- `AgentLifecycle`: none; its properties are invariants.
- `ControlServer`: none, and no liveness property: the server sets no read deadline, so
  nothing makes a silent client's connection end.

## 4. What is proved

Every invariant a passing run checks, and every action property, is a theorem: TLC shows it
for the instance of the run, TLAPS for every value of the constants. The proofs have one
shape. The property is strengthened to an inductive invariant, one lemma per action (or
per group of actions that act alike) shows that the invariant is kept, and the last step
combines them.

**Reload** (`PolicyReloadProofs`, `PolicyReloadRefines`), for every set of appliers, CPUs, keys,
policies and packets, every map size and every number of generations (at least two):

- `TypeCorrect`: `Spec => []TypeOK`. The strengthening is `PolicyInHand`: whoever is inside
  the function has a policy, so that the entry about to be staged is one.
- `ReloadComplete` and `ReloadLeavesNoResidue`: `OneSwapper => (Spec => []ActiveComplete)`,
  and the same for `NoResidue`. `OneSwapper` says that all appliers use one `MapSwapper`;
  `boot_race` shows that it is needed. Neither is inductive alone; `SafeInv` adds
  that whoever is past the lock holds the mutex (so there is only one), that the loader's lock is
  held only by someone clearing, that the holder's `curGen` and `nextGen` are the active
  generation and its successor before the switch and the other way about after it, and that
  while staging the new generation holds exactly the prefix of the policy staged so far.
  The successor is always another generation (`NextGenFacts`), hence clearing and
  staging never touch the active one.
- `ReloadDropsSound`: `OneSwapper => (Spec => []DropSound)`. `DropInv` adds that nobody
  stages under the number a packet holds unless the counter has lapped the packet, and that a
  generation's entries can otherwise only have shrunk since a packet read its number, so that
  what hits in it would have hit when it was active. The exception is part of the property: a
  packet that stays in the hook while the counter comes round (2^32 reloads in the program)
  could look up a generation that is being staged.
- `ReloadPassesSound`: `OneSwapper => (Spec => []PassSoundWhileActive)`. `PassKnown` adds what a
  packet has learnt from the lookups behind it, as long as the table is the active one; that table does
  not change while it is active, and a packet whose number becomes active again was lapped.
- `ReloadRefinesAtomic`: `OneSwapper => (Spec => AtomicReload)`. Every step is a step of
  `AtomicPolicy` or changes nothing of it: only the switch installs.

**Direct edits** (`DirectRulesProofs`): `EditTypeCorrect`, and
`UneditedCompleteHolds`: `OneSwapper /\ NoReuse => (EditSpec => []UneditedComplete)`.
The invariant of the reload does not carry over whole: an edit that comes late leaves an entry in a
generation nobody works on, so `NoResidue` is given up and the rest (`Control`, `StagedPrefix`)
kept. What replaces it is that an edit under way has read the active generation or
an earlier one (`EditsPast`), while reloads stage under a later one. That comparison
needs `NoReuse` (`MaxApplies < GenCount`, that no generation number comes round), and `Counted`: the
active generation plus the calls that may still switch never exceed the calls made. Without
`NoReuse` the property is false: an edit that sleeps through 2^32 reloads can land in the
generation being staged.

**Connection tracking** (`ConntrackProofs`), for any number of CPUs, flows and slots of the map, with
any evictions:

- `ConntrackTypeCorrect` and, from it, `MirrorCorrect`. The strengthening is what a CPU
  has in hand at each step (`InHand`).
- `NoGhostFlowHolds`. A teardown takes the flow's credit away at its end, on the
  strength of what happened since it began. `GhostInv` makes that history explicit: every SYN a
  run overlapped with is recorded (`SynOverlaps`), a SYN in the program has its flow's credit
  (`SynHasCredit`), and a teardown no SYN overlapped still finds the first of its two entries
  gone when it deletes the second (`FwdGone`).
- `NoSpuriousDropHolds`. `OpenInv`: an open flow has an entry and no FIN or RST in
  the program (`OpenIsTracked`), and a segment that met its flow open and missed with its first
  key will find the other (`ArmedFinds`).

**Audit pipeline and dashboard** (`AuditPipelineProofs`, `DashboardProofs`), for any number of CPUs and
any sizes of ring and store:

- `StoreIsRecentHolds`. `PipeInv` says where each reserved record is: the handled ones first,
  then the one the reader holds, then those in the ring, in the order of reservation
  (`RingOrder`), a submitted record carries the id of its event (`RecordIds`), and the store has
  the last of the handled ones (`StoreOrder`). `PipelineTypeCorrect` follows from it.
- `DashboardObserves`: `DashSpec => Spec`, so the theorems of the pipeline hold beside the
  dashboard. `SelectionFollowsHolds` and `DashboardTypeCorrect` are by an invariant of the
  dashboard's own variables (`SelectionInStream`: with or without a filter the selection is within the
  unfiltered list, and at its end unless moved) and the bound on the number of filtered events.

**Agent and sockets** (`AgentLifecycleProofs`), for any number of processes, connections and slots:

- `AgentTypeCorrect`.
- `OwnFilterHolds`, from the exclusive XDP link. `FilterInv`: a process holds the link from attaching
  until `Close` gives it up, no two hold it, and between its own unpin and its
  `AddFilter` nobody else can have pinned anything.
- `SockopsAllOrNothingHolds`. The property speaks of processes that are not inside
  `LoadSockops`; `SockopsInv` says what has been done at each step inside.
- `CleanExitHolds`. `CleanInv` adds that processes start in order and one that had the host to
  itself still has it (`SoloInv`), that maps nobody refers to are empty (`MapInv`), and what `Close`
  has undone at each of its steps (`Undoing`).
- `NeverMisdeliveredHolds`, with the hypothesis `DistinctTuples` (one connection per 4-tuple), for both
  byte orders. The invariant is that an entry is keyed as sockops keys its socket; a key
  sk_msg computes is then the peer's or nobody's.
- `NothingRedirectedHolds`, from the same invariant: with `RemotePortOrder` it is nobody's.

**Compiler and control server** (`ControlServerProofs`), for every set of policies, of any length, and any
number of connections and peers:

- `CompileCorrect`: for a plain policy `Validate` accepts and any packet, the lookups on the table
  that staging the compiled policy gives return the action of a rule that applies, or the default. The
  argument follows a key through the compiler: which lists may name it (the keys of the three maps are
  disjoint), that `FlattenSeq` and `\o` keep the entries in order, that the last entry for a key
  belongs to the last rule that names it (`TableSays`, for every valid policy), and that a plain
  rule applies exactly when it names a key the packet is looked up with (`PlainApplies`).
  What `FlattenSeq` computes is shown by induction on the length. The
  induction theorems of the library take an operator, which the provers cannot instantiate; the
  proofs use the least-element principle of `WellFoundedInduction` instead (`LeastNat`): if some
  length fails there is a least one, and the step refutes it.
- `PlainPoliciesEnforcedHolds` and `RuleIdsExplainHolds`, from it and `TableInstalled`: the table
  is the one compiled from the policy last installed, and that policy was validated.
- `ResponsesTruthfulHolds`, `OnlyOperatorsInstallHolds` and `ServerTypeCorrect`. `ServerInv` has, for each
  connection (`ConnOK`), that it has installed nothing before it answers, that its answer is true,
  and that past the permission check an `apply_policy` comes from a peer that was entitled
  when it was checked and still is, since uids are only ever added.
- `ServerRefinesAtomic`: `Spec => ServerAppliesAtomically`. A connection maps to a caller of
  `AtomicPolicy`: dispatching a valid policy is its request, `Apply` the installation of a table that
  realizes the compiled entries, `ApplyFails` the rejection, `Reply` the return; every other step is
  invisible. Whether an answered connection had applied is told from its request and role (`Admitted`).

Assumptions: the named `ASSUME`s of the modules, evaluated by TLC in every run. They say that
the keys of the three maps are distinct, that sentinels are not values
(`NoEntryAssumption` and its like), that there are at least two generations, that bounds are natural numbers and
sizes positive, and, for the compiler, that the constants of `PolicyTable` cover the policies: ports
are pairs of number and protocol (`PortAssumption`) and the verdicts of valid rules are rules, told
apart by their action (`VerdictAssumption`). The hypotheses `OneSwapper`, `NoReuse`
and `DistinctTuples` stand in the theorems that need them, and hold
in the runs that check the same properties.

Only model-checked:

- liveness, which this prover does not do: `ApplyReturns`, `XdpVerdictsExplained`,
  `ReaderStops`, `CatchesUp`, `TurnsOffline`;
- the six disagreements of section 3, which are counterexamples and need no proof. What
  they check is false of the code, so there is nothing to prove.

## 5. What the models assume or leave out

- Steps whose error the code checks can fail at any time, with one exception: the lookup of the single
  element of `active_generation_map` succeeds. Of the errors the code ignores these are assumed
  not to happen: the deletion of a key that is there; an iteration of `ClearGenerationRules` that
  breaks off, whose `Err` is never asked (`loader.go:333-338`, `346-351`, `360-365`); the conntrack
  inserts (`tc_firewall.c:115-116`); `os.Remove` of the TC pin at start-up (`loader.go:99`); and
  `tc qdisc del` and `os.Remove` in `Close` (`loader.go:601-603`). With one of them the properties about
  what it should have done (`NoResidue`, `NoSpuriousDrop`, `OwnFilter`, `CleanExit`) would not hold.
- The lookup of a port rule and the read of its action through the pointer (`xdp_firewall.c:192-194`) are one
  step: that the element is purged and reused for another rule in between is left out. So is that
  a store through a stale conntrack pointer changes the state of another flow that was given the element;
  no verdict depends on the state.
- TCP segments have one of five sets of flags; SYN together with FIN is left out.
- `SelectionFollows` is about the list without a filter. With one, auto-follow places the selection by
  the length of the unfiltered list (`firewall-tui/main.go:263`), behind the list shown, and the
  inspector is empty until the operator moves it or lifts the filter.
- After a read error the ring has no reader for the rest of the agent's life; `XdpVerdictsExplained`
  speaks of the time the reader runs. `CatchesUp` compares the dashboard with the store, whatever
  reached it, and relies on traffic being bounded in the instance.
- Per-CPU counters are left out: each is written by one CPU and summed by a reader.
- The store's `Filter`, `Count` and `Clear` have no caller in the agent; `Table.flows` is
  written and never read.
- The cgroup of a packet is arbitrary: in XDP the helper returns that of whatever task was
  interrupted.
- The socket programs write their audit records into the XDP ring too (their loading replaces the
  map), which adds producers of the same kind and is not modelled separately.
- Data in the kernel's queues is not modelled, so whether redirected data can overtake data
  already in the stack (`proxy_redirect.c:66`) is not answered here.
- When agents overlap, `Close` of the old one can delete the qdisc, pin or `sock_hash` pin of the
  new one: it gives the XDP link up first (`loader.go:597`) and removes paths whoever put
  something there. `CleanExit` is therefore stated for a process that had the host to itself;
  `OwnFilter` and `SockopsAllOrNothing` hold with overlap too. A process
  without `--enable-sockops` leaves a dead predecessor's `sock_hash` pin alone; `CleanExit` says so.
- The kernel facts AgentLifecycle and SockRedirect use: `sk_msg_md.remote_port` is in network order; an interface takes one XDP link; links and maps go with
  their last descriptor or pin; a qdisc, its filters and pins outlive the process; deleting the
  qdisc deletes its filters; a closing socket leaves every sockhash.
- Of the dashboard, pane focus, the conntrack table's cursor, window size, the counters' history and
  all rendering are left out. The rates it draws are differences of unsigned counters
  (`tui/main.go:330`), which a late reply can make wrap; no property speaks about them.
- As `tc_firewall_func` sees ingress only, it has no entry for connections the host opens, and
  the first FIN ends a flow: segments of the rest of an orderly close are untracked. `Conntrack`
  says what happens to segments at the hook, not whether that is what an operator wants.
- YAML, JSON and the netlink, capability and `/proc` calls are external. Generated bindings
  and the namespace harness of the tests are not modelled.

## 6. Plan

Done, in this order: PolicyTable, PolicyReload with AtomicPolicy and their proofs;
DirectRules; Conntrack; AuditPipeline; PolicyCompiler and ControlServer; Dashboard;
SockRedirect and AgentLifecycle.

Then the theorems, each in a module of proofs beside its component: reload and its refinement,
Conntrack, AgentLifecycle, AuditPipeline and Dashboard, ControlServer with the compiler, DirectRules.

Left: the exact condition under which a direct edit takes effect (no switch between its two halves),
and its theorem.
