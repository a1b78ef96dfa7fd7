# A formal model of dln-node-knots

TLA+ specifications of the Lightning node service in `src/src`, model-checked
with TLC and, for the properties that matter most, proved with TLAPS for every
value of the constants. The service sits between two things it does not
contain: controllers that reach it over Nostr (`nostr-ln`) and `ldk-node`, which
runs the Lightning node proper. What is modelled is the code between the two;
both are external, and appear as far as that code uses them.

## 1. The system

| Component | Source | State | Operations |
|---|---|---|---|
| Outbound payments | `wallet.rs` `pay*`, `ldk_service.rs` 862-1156 | none of its own; ldk-node's payment store; one thread per request | `pay_invoice`, `pay_keysend`, `pay_offer`, `pay_onchain`, `pay`, `wait_for_outbound_payment` |
| Event pump | `service.rs` `run`, `events.rs`, `state/forwarding_store.rs` | position in the loop; the forwarding store (memory); ldk-node's event queue (memory and disk) | take, `handle` (announce, record a forward, tell the signer), `event_handled` |
| Channel and peer control | `control.rs`, `ldk_service.rs` 700-862 | ldk-node's channels and peers; a copy of a channel per request | `open_channel`, `close_channel`, `connect_peer`, `disconnect_peer`, `set_channel_fees` |
| Route search | `ldk_service.rs` `find_routes`; `query_routes`, `quote_payment` | heap, visited set and routes of one search | begin, pop, drop, arrive, expand |
| Receiving, offer and address stores | `wallet.rs`, `state/offer_store.rs`, `state/address_store.rs` | two maps in memory beside what ldk-node has issued | `make_invoice`, `make_offer`, `make_new_address`, `receive`, `disable_offer`, `lookup_address`, `list_offers`, `list_addresses` |
| Hold invoices | `wallet.rs`, `ldk_service.rs` 490-565 | none of its own; ldk-node's held payments and their records | `make_hold_invoice`, `settle_hold_invoice`, `cancel_hold_invoice` |
| Listings and lookup | `wallet.rs`, `ldk_service.rs` 940-1110 | none; each page is made anew from ldk-node's payment store | `list_transactions`, `list_invoices`, `list_payments_filtered`, `lookup_payment`, `lookup_invoice` |
| Worker threads | `main.rs`, `service.rs`, `ldk_service.rs` 1105-1156 | the async runtime's pool | shared by the pump and every handler; a wait for a payment keeps one |
| Graph listings, balance, info | `control.rs`, `wallet.rs` | none | single reads, reformatted |
| Start-up | `main.rs`, `lib.rs`, `ldk_service.rs` | configuration | build the node or abort |
| Service, transport, grants | `nostr-ln`, outside the repository | | requests arrive at any time, in any order |

How they interact. A request becomes one activation of one handler. Handlers run
beside one another and beside the pump; they share ldk-node (each call into it
is atomic, two calls are not) and the three stores of `state/`, each behind a
mutex and each only in memory. ldk-node calls nothing back: it queues events,
which the pump takes one at a time, and it changes its payment store and channel
list while handlers look at copies of them. `events::handle` and the handlers
give notifications and responses to `nostr-ln`.

What is hard, and what makes each component correct:

* **Outbound payments.** A handler polls a store that other handlers, retries of
  the same invoice, and the network are changing; it may time out just as the
  payment settles. It must never answer success for another payment, start two
  payments for one request, call a payment failed that later settles, or wait
  for ever.
* **Event pump.** The process may die between any two steps, marking an event
  handled may fail, delivery may fail. No event may be lost; a repeated event
  must not hide a closing behind a second opening, or count a forward twice.
* **Channel control.** `set_channel_fees` and `close_channel` act on a copy that
  may be stale. What is charged must be what was asked for; a closed channel
  must stay closed.
* **Route search.** Not a textbook Dijkstra: nodes are marked when popped, hops
  are limited when popped, one node (the payee) is popped several times, and the
  fee arithmetic has a fixed width. Routes must be usable, in order, and
  cheapest first; "no route" must be true.
* **Receiving.** Issuing and storing are two steps, several entries may fail one
  by one, and the stores do not survive the process. What was handed out must be
  known; an error must leave nothing payable behind.
* **Hold invoices.** A settle reads a record and then claims; a cancel, the deadline
  or another settle may come between, and requests may come before the payment or
  twice. A hold must end only as somebody asked who had the right secret or hash,
  and "ok" must mean that nothing is held any more.
* **Listings and lookup.** Each page is cut from a list that is sorted by last update
  and has moved since the page before; `list_invoices` filters once more after the
  cut. A client must not miss what did not change. A lookup with several selectors
  must not answer for the wrong payment.
* **Worker threads.** The wait for a payment sleeps on its worker. Payments that
  never resolve must not keep other requests, or the pump, waiting for ever.

`PROJECT.json` lists the hazards line by line, with the properties that cover
each.

## 2. Modules

| Module | What it is |
|---|---|
| `PaymentPromise` | abstract specification of paying: what a controller may rely on |
| `OutboundPayments` | the paying handlers and the wait, over ldk-node's payment store |
| `MCOutboundPayments` | its instance for TLC |
| `OutboundPayments_proofs` | its theorems, and that it implements `PaymentPromise` |
| `AtLeastOnce` | abstract specification of delivery: events are kept until handled, in order, and all are handled |
| `EventPump` | the pump, `handle`, the event queue on disk and in memory, crashes |
| `EventPump_proofs` | its theorems, and that it implements `AtLeastOnce` |
| `ChannelControl`, `MCChannelControl`, `ChannelControl_proofs` | channels, peers, fees |
| `Routes`, `MCRoutes`, `Routes_proofs` | the route search; the reference it is checked against |
| `Receiving`, `MCReceiving`, `Receiving_proofs` | instructions, offers and addresses |
| `Listings`, `Listings_proofs` | pages and filters over a changing payment store; lookups |
| `HoldInvoices`, `MCHoldInvoices`, `HoldInvoices_proofs` | `Listings` composed with the hold invoices that change the records |
| `WorkerPool`, `MCWorkerPool`, `WorkerPool_proofs` | `OutboundPayments` composed with the pump on a bounded pool of workers |

A definition whose comment begins "Seeded defect" is a mutated form of the one
after it. It is part of no specification: it serves to show that a property
would notice that defect.

### OutboundPayments

One `pc` per call: `idle`, then `polling` / `checking` / `asleep` (the three
points of the loop of `wait_for_outbound_payment`: read the store, look at the
clock, sleep), then `done`. `Refuse`, `FailParse`, `FailSend`, `PayOnchain` and
`Send` are the five ways the front half of a handler ends, whichever method it
is; `Chosen` is the order in which `pay` takes the instructions of a URI. `TypeOK`
says where a call has a payment: `Send` and `PayOnchain` give it one, a request that
is turned down never has one. Reading
and looking at the clock are separate steps because a payment may resolve in
between. `Poll` is atomic: one call lists all payments. `polls` counts sleeps;
the timeout may strike after any read and must after `MaxPolls`. An identifier is
tagged with what it is (`hash`, `preimage`, `id`, `txid`), which is all the
properties about `transaction_id` need. External: `Startable` (what ldk-node does
on a send, the idempotence of an invoice's hash included) and `Resolve`.

`PaymentPromise` has a reply, a payment and a set of settled payments, no
store, no polling, no validation. The refinement mapping makes a call `paid`
when its answer is ok and `open` while it waits.

### EventPump

`pump` is the line the task is at: `waiting` in `next_event_async`, then the arm
of `handle` (`signing`, `announcing`, `recording`), then `handled`, before
`event_handled`. `queue` is ldk-node's queue in memory, `disk` the copy a restart
reads. `MarkFails` is an `event_handled` that could not write: the head may be
gone from memory but not from disk. `Crash` empties memory, forwarding store
included; ctrl-c in `main` is the same, since it leaves without stopping the node.
What a notification says is left out, and only whether it was delivered is kept:
`Reaches` and `IsLost` are the two outcomes of `Announce`, which goes on in the same
way after both. `lastWord`, what a controller last heard of a channel, changes with a
delivery alone.

`AtLeastOnce` knows what would survive a crash (`kept`) and what has been handled
(`done`): neither memory nor crashes nor arms of `handle`. The refinement mapping
takes the queue on disk for the one and `attempted` for the other. A forward that
is counted twice is no concern of it; a handled event may be handled again for as
long as it is kept.

### ChannelControl

`Find` copies a channel, `SetFees`, `Close` and `ActFails` act on what was found:
the two calls of `set_channel_fees` and `close_channel`. `snap` is the copy.
`Narrow` is `u32::try_from(v).ok()`. `Confirm`, `Vanish` and `PeerMoves` are the
network. `window`, `latest` and `muddled` are history variables: the values that a
fee may have (what it was when the first of the fee requests now overlapping read
it, and what was named by those accepted since; a request that overlaps no other
starts a new window), what the accepted requests ask in the order they took effect,
and for which channels requests overlapped or did not fit. `ActFails` may happen at
any time, on a listed channel too: the code passes on any error of ldk-node. That a
channel which has left the list takes no configuration is ldk-node's own check.

### Routes

The graph is a set of channels with a policy per direction, read once. `heap` is a
set of partial paths; `Pops` allows any of the cheapest, a superset of what the
code's tie-break by node id allows. `HopFee` multiplies in `WordSize`
(2^64 in the code). `MaxHops` is 6, a hop limit applied on popping (`Drop`) as in
the code. The search is one activation, so interleaving plays no part: the
actions are its iterations, and nondeterminism is the choice among equals. CLTV
deltas are left out: nothing compares them.

The reference is not a search: `PathsIn` is the set of all loop-free chains of
channels, `Fee` the sum of what their hops charge, and `Hidden` says of a path that
the hop limit stopped the search from following it: one of its nodes was reached
no dearer along a path of one hop too many.

### Receiving

`Issue` is ldk-node's part of an entry, `Store` the handler's; between them
anything may run, and `Crash` may strike. `receive` goes through its entries and
skips those that fail; the single methods fail. `owner` is what ldk-node has
issued and for whom (a crash does not undo it); `offers` and `watched` are the two
stores (a crash does). `fresh` are the calls answered in the present life.
The `uri` keeps one address, the last, as `receive` does. Expiry, labels,
descriptions, amounts beyond absent, zero or some, and the sums over payments
(always zero, see section 7) are left out.

### Listings

`status` and `updated` are the two fields of ldk-node's records that listings read;
`Change` is any cause that adds or updates one. `Listed` is the filter of
`list_payments_filtered`, `Orders` the sort by last update (any order among records
of one second, since nothing in the code orders these), `Page` the
`skip(offset).take(limit)`, and `Shown` the filter by state that `list_invoices`
applies to the page. A *walk* is a client that repeats its request with the next
offset (`Begin`, `Read`) until a page is short (`Leave`): no response says in
another way that there is more. `drift` and `clear` are history: whether the list
only grew, or lost a payment, since the walk began, and which payments did not
change meanwhile. `Forms`, `HashOf` and `Lookup` are `lookup_payment` and
`lookup_invoice`: which selectors count as a form, and in which order they are
read, two questions that the code answers in two places. A selector is the hash of a
payment, and `FiledUnder` is `lookup_payment_by_hash`: it makes a `PaymentId` of the
hash (`ldk_service.rs:957`) and so finds nothing of a payment that ldk-node files
under another id (`NotByHash`). `ListedIsFound` ties the two halves together: what
a walk has been shown, a lookup by its hash answers for, these payments excepted.

### HoldInvoices

`SettleRead` is the first call of `settle_hold_invoice` (it needs a record, and reads
its amount; the record's state is not looked at) and `Claim` or `ClaimFails` the
second; `Cancel` is one call. `Arrive`, `Expire` and `Record` are the payer, the
deadline and ldk-node's own bookkeeping. `held` is what ldk-node holds, `endedBy`,
a history variable, who ended a hold. A hash and its preimage stand for the payment,
since the hash is computed from the preimage. Every change of a record moves it in
the listings, so one run checks both.

### WorkerPool

Everything of `OutboundPayments`, each handler in a task: `Arrive` (a request is
there), `Serve` (a worker takes it up), `Occupy` (a step of a wait, on the worker it
holds) and `Renew` (the next request), beside `PumpRuns`. `FreeWorker` is the point:
a call that waits holds a worker, whatever else awaits gives its own back. Requests
never cease, events are bounded, and no payment need resolve.

## 3. Runs

| Run | Shows | States |
|---|---|---|
| `payments` | answers are sound, one payment per request, a call has a payment only if it began one, a failure is final, no timeout over a success slept through, every wait ends, `PaymentPromise` is implemented | 62k |
| `event_pump` | no event lost, no closing hidden by a repeated opening unless its own notification was lost, forwards counted once, signer asked first, every event handled in the end, `AtLeastOnce` is implemented | 177k |
| `channel_control` | overlapping fee requests undo no more than each other, separate requests add up, closed stays closed, requests are not honoured in part | 34k |
| `routes` | routes are usable and ordered, the first is the cheapest and "no route" is true, but for paths the hop limit hides | 33k |
| `receiving` | what was handed out is known, made is handed out, errors leave nothing, disabled stays disabled, only a restart forgets | 646k |
| `records` | walks skip nothing that did not change and end at the end, what they show can be looked up, holds end as asked, "ok" ends a hold | 1.44M |
| `worker_pool` | with every worker in a wait, each request is answered and each event handled in the end; no deadlock | 58k |
| the five others | one comment of the source each, and how the code departs from it (section 6) | |

Every property of the seven passing runs has a mutant of the code that breaks it.

### Bounds, and why they are enough

* `payments`: two calls, one invoice both may pay, one payment of each other
  kind, `MaxPolls` 2. Every property but `FailureIsFinal` is about one call and
  its payment against everything else, and the second call is everything else;
  `FailureIsFinal` needs exactly a retry. Two sleeps let a payment resolve before,
  between and after them. The requests take every branch of the front half.
* `event_pump`: one channel (opening and closing), one forward, one notice, one
  ignored event: a queue of up to five. Two crashes allow a redelivery that is
  itself interrupted; one failed mark per life allows the queue in memory and on
  disk to part, and a crash after that. Proofs cover any number of each.
* `channel_control`: four calls on one channel suffice to open it, overlap two
  fee requests, have another beside or after them, and close it under them. `FeeLimit`
  is 1 and requests name 0 to 3, so a fee that does not fit is one request away.
  Calls are symmetric.
* `routes`: every diamond of four nodes with each of seven directions absent, cheap,
  dear, or too small, three amounts and one or two routes; and graphs of five nodes
  whose longest paths have four hops. `MaxHops` is 3 here, so that the limit takes
  part; `Unit` is 2, so that division rounds; `WordSize` is 10, so that the largest
  amount overflows at the highest rate. The proofs are for any graph and any limit.
  `CannotReach` uses a chain of eight nodes and the code's own limit of 6,
  `LowestFee` a `WordSize` of 16.
* `receiving`: three calls are a maker, one that disables or looks up, and one
  beside them; two offers and two addresses allow one request to get two of a
  kind; one crash separates two lives. Calls are symmetric, and no property of the
  run is temporal.
* `records`: two hold invoices and an outgoing payment make a list of three, pages of
  one or two, and four writes: enough to fill the list and to move two of it while
  it is read. `MaxTime` 1 gives times that are equal and times that differ. The four
  walks are one of each method with and without what the second filter or the upper
  bound leaves out. The outgoing payment is one of those that are not filed under
  their hash; the lookups are of every form, alone and beside others, with selectors
  that agree and that do not. Two calls are a settle and whatever comes between its two steps.
  Calls are symmetric, and no property of the run is about liveness. The proofs
  cover any number of payments, writes and requests.
* `worker_pool`: one worker and two calls: any wait holds all workers, and another
  request is there to be kept out. `MaxPolls` 1, and two events, so that the pump is
  kept out before its first event and between two. Calls are renewed, so the
  contention never ends.

Deadlock is checked in `worker_pool`, where requests never cease and "everyone waits
for everyone" is the question. In the other runs requests and events are finite,
and the system stops when all have been answered or handled; that a wait does not
stop is what `Answered` and `EventuallyHandled` say there.

### Fairness

* `OutboundPayments`: weak fairness of `Wait(c)` for each call. The waiting loop is a
  thread that sleeps and wakes; nothing else holds it back. Nothing makes a
  payee settle or a controller send, so `Resolve` and `Start` have none.
* `EventPump`: weak fairness of the pump's task and of `Restart`: a task in a loop on
  the runtime, a service its supervisor starts again. `MaxCrashes` bounds crashes,
  as liveness needs: with a crash between every two steps nothing is ever handled.
* `WorkerPool`: weak fairness of `Occupy(c)`, as above: the wait has its thread
  already. Strong fairness of `Serve(c)` and `PumpRuns`: these are ready only now and
  then, when a worker is free, and the runtime's queues starve no task that is
  ready again and again. `Resolve` has none: whether ldk-node itself runs on these
  workers is not known, so nothing rests on a payment ever resolving.
* The other modules claim no liveness.

## 4. Proofs

All for every value of the constants that satisfies the module's assumption
(`PaymentsAssumption`, `PumpAssumption`, `ControlAssumption`, `RoutesAssumption`,
`ReceivingAssumption`, `ListingsAssumption`, `HoldAssumption`, `PoolAssumption`: kinds
are disjoint, requests are of their type, bounds are naturals, what is counted is
finite). Each `_proofs` module has the same outline: an inductive invariant (`IInv`;
`LInv`, `HInv` and `PoolInv` in the last three); its `Init` and `Step` lemmas, the
latter from a lemma per action or group of actions; `Invariance` (`Spec => []IInv`);
then one theorem per property.

* **OutboundPayments.** `IInv` adds to `TypesOK` that an idle call has no payment, that
  a waiting call's payment is the one it started and no transaction, and that a
  call that is done has an answer, and a payment unless it was turned down; `PidFits`
  is `TypeOK` from these. Without them, `SuccessAnswerSound` cannot know
  that the payment polled is the payment begun. `NoTimeoutOverASuccess` is a
  temporal implication: `SafeStep` shows that a call past a success it slept
  through stays safe. `FailureIsTheLastWord` needs one more invariant
  (`FailedInv`: no other call may have started the payment again unless it holds
  it). `HandlersImplementPromise` shows that initial states map to initial states
  and steps to steps or stutters of `PaymentPromise`. Of the liveness of a wait, all but
  fairness is proved: what it has left (`StepsLeft`) is bounded (`WaitsAreBounded`), each
  of its steps lowers it and no other step raises it (`WaitsRunOut`).
  `InvoiceIdsAlwaysResolve` draws the line that `transaction_id_lookup` crosses: the
  identifier in a response is ldk-node's exactly when `pay` paid an invoice. It needs
  of each call that it answers the identifier of its own payment, and that `pay` chose
  no keysend (`IdOf`).
* **EventPump.** `HandledBeforeDropped` speaks of the disk, but the disk is
  overwritten from memory, so what left memory must have been handled, and a crash
  falls back on the disk, so memory may never be ahead of it: `MemoryIsOnDisk`,
  `HandledBeforeForgotten`, `HeadIsHandled`. `ClosingIsNeverMasked` has an invariant
  of its own, `OInv`: both queues are in the order in which a channel lives
  (`GoodQueue`: no opening after a closing), so that after the handling of a closing
  no opening is repeated but before the closing itself: the last word can be wrong
  for good only where that handling's notification was lost. `PumpImplementsPromise` needs that both
  queues hold no event twice and that memory is what is left of the disk when its
  first few, all handled, are taken away (`SInv`, `IsRest`): then a mark is a
  `Forget`, an end of handling a `Handle`, and everything else stutters.
  `ForwardsAreCountedOnce` needs `FInv`: a forward that is still in memory has been
  counted no more often than a mark failed in this life. `EventsAreHandledInOrder` is a
  consequence of the abstract steps alone (`PromiseKeepsOrder`): it is what the promise
  is worth. `EventsAlwaysComeCloser` gives a variant (`PumpSteps`: where the pump is, the
  events in front, the marks that may still fail) which only a crash raises, hence
  the fairness of the pump and the end of crashes that `EventuallyHandled` needs.
* **ChannelControl.** What a copy holds must be in the window of its channel
  (`SnapInWindow`), and on a channel without overlap the only copy is current
  (`SnapIsCurrent`). `OverlapUndoesNoMore` needs the first: a window is started anew
  only when no other copy is about, so no copy is older than the window. `ClosedForGood`
  and the part of `TypeOK` about answers need `AnswersHold`: only a finished call has
  an answer, a close answered ok names a channel that is closing or gone, stages it
  cannot leave, and a fee request answered ok was one that no check refuses.
* **Routes.** On any graph. Loop-freedom needs that all nodes on a path but the last
  have been followed (`HeapPaths`), so that an expansion, which leaves followed
  nodes out, closes no loop; distinctness that no path is in the heap twice
  (`HeapDistinct`); order that what remains costs no less than what was found
  (`Frontier`).
  That the first route is a cheapest one needs what the search has done about every
  node (`Settled`): there are distances of the followed nodes, none greater than what
  is left in the heap, such that reaching any end of a channel of a followed node is
  `Accounted` for: that node was followed no farther away, waits in the heap, is the
  payee of a route found, or was given up at the hop limit. `PathOutcome` then goes
  along an arbitrary path. A fact about every hop, the sums of fees among them, is
  proved by the least hop that fails it (`LeastNat`), as induction itself is out of
  the prover's reach. `SearchIsExhaustive` is the result, for paths of any length and
  with or without overflow; `FirstRouteIsCheapest` and `NoRouteIsNoneThere` follow,
  and `ShallowGraphs`: where no path is longer than the limit, the two comments that
  `lowest_fee_overflow` and `cannot_reach` refute in general do hold.
* **Receiving.** A handler that stores what it has just got is the only one that may
  leave something issued and not stored. `IInv` says so: what is *out* (issued and
  not on its way into a store) is known or was made in an earlier life, and of each
  call what it has made, stored and carries (`CallInv`). A step of one call leaves
  what the others made alone (`Frame`).
* **Listings and HoldInvoices.** An unchanged payment that no other shares a second
  with has a rank, the number of listed payments updated after it (`Position`).
  Changes put payments at the top, so its rank only grows while nothing leaves the
  list, and it is on every page that covers its rank, in whatever order ties fall.
  `NothingSkipped` is then inductive, and a short page covers all ranks that are
  left. `ListingsRefined` carries these facts over to the composition.
  `ListedIsAlwaysFound` needs that what a walk has seen is still on record
  (`SeenOnRecord`), and of a lookup whose selectors agree that the hash it comes down
  to is the one they name (`LookupIsNamed`).
  `OutcomesWereAskedFor` and `OkEndsTheHold` need only that what a call is about does
  not change between its two steps.
* **WorkerPool.** `PoolInv` is the inductive invariant of `OutboundPayments` and a bound
  on the calls that wait; a renewed call is an initial one, so `PaymentsStaySound`
  carries two of the results about payments over to handlers that are used again.
  `PoolImplementsPromise` does the same for the refinement: on a pool of any size every
  step is one of `PaymentPromise`, a stutter, or the renewal of an answered call
  (`Renewed`). `PoolWaitsRunOut` carries the variant of a wait over; with
  `FullPoolIsInWaits` (a pool without a free worker is in waits) it is the safe half of
  `RequestsAnswered` and `EventsHandled`.

Model-checked only: liveness (`Answered`, `EventuallyHandled`, `RequestsAnswered`,
`EventsHandled`, the fairness halves of `KeepsThePromise` and `KeepsEvents`), which is
out of the prover's reach. The variants above (`WaitsRunOut`, `PoolWaitsRunOut`,
`EventsAlwaysComeCloser`) are what these rest on beside fairness. `PoolTypeOK` is proved
only.

## 5. External parts

ldk-node's payment store, event queue, channels, peers and issued instructions are
modelled from how `src/src` uses them. Its calls are atomic, may fail whenever its
interface says so, and the store may change between any two. Assumed of it: an
invoice is refused while its hash is pending or has succeeded, an offer is paid
under a fresh id (so its payment is `NotByHash`), the event queue is written whole at
every change, a channel that has left the list takes no configuration, and an address
that was just formatted parses again (`wallet.rs:786` skips one that does not, after
it was registered). The signer and
delivery may fail at any call. Of hold invoices: `claim_for_hash` and `fail_for_hash`
answer ok when nothing is held, a payment may arrive after a cancel, and an invoice
that was claimed is not paid again. Of the records: ldk-node's clock does not go
back, and nothing is known of the order in which its store lists records of one
second. Of clients that walk: they stop at a short page, and ask for a limit of at
least one. Of `nostr-ln`: every request is a task of its own. Of the runtime: it
starves no task.

## 6. Where the code departs from its comments

| Run | What the code does |
|---|---|
| `transaction_id_lookup` | `pay_offer` answers the preimage as `transaction_id` (`wallet.rs:565`), two lines below a comment that it is the hash; `pay` by an offer answers the hash, under which `lookup_payment` does not find an offer's payment |
| `delivery_failure` | an event whose announcement failed is marked handled (`service.rs:58`) although the comment says it is not dropped |
| `fees_lost_update` | two overlapping accepted fee requests, one undone (`ldk_service.rs:847`) |
| `cannot_reach` | a cheap path of six hops hides a short dear one; the quote says there is no route |
| `lowest_fee_overflow` | `amount_msat * rate` wraps in 64 bits and a dear channel ranks as cheap |

## 7. Met while reading, without a run

* `pay` answers an on-chain payment as `settled` when it was broadcast
  (`wallet.rs:706`; the comment at 822 says that this node settles synchronously).
  `PayOnchain` says so, and `PaymentPromise` has `Instant` payments for it.
* `notify_channel_ready` prints a failure of the signer, and the channel is announced
  all the same (`ldk_service.rs:414`).
* With several routes asked for, the second and later ones differ only in how the
  last node was reached (`ldk_service.rs:1249`).
* After a restart `disable_offer` and `lookup_address` answer "not found" for what the
  node has issued and still honours; `OnlyRestartForgets` says that nothing else
  has this effect.
* `record_transaction` and `record_payment` of the stores have no caller, so every
  total is zero (`wallet.rs:307`).
* A fee above `u32::MAX` is dropped and the rest of the request carried out
  (`control.rs:244`), although the lines above it refuse what the node cannot set.
* `list_invoices` shows a failed invoice as pending, and none as expired: the record it
  is made from never has an expiry. It filters by state after the page is cut, so a
  page that was asked for by state may be short, or empty, and not the last
  (`ShortPageIsLast` leaves these requests out). `total_count` is the length of the page.
* `settle_hold_invoice` reads a record in any state and may answer ok with nothing
  claimed, if the payment went back in between. `OkEndsHold` says what ok does mean.
* `lookup_payment` does not count a `lookup` without `payment_type` as a form, but
  reads it before the invoice; and of a hash and an invoice that disagree it takes
  the hash. "Exactly one of" the forms (`wallet.rs:402`) is thus not what is asked for.
  The model has both, and `ListedIsFound` is about selectors that agree.
* The payment of an offer is listed, and a lookup by its hash answers "not found":
  `ListedIsFound` says that this, too, is so of nothing else.
* The URI of `receive` names a whole number of satoshis, and its invoice the full
  amount in millisatoshis; `pay` divides likewise before an on-chain payment
  (`wallet.rs:694`, `wallet.rs:721`).

## 8. What is left

Done, in the order of importance: `OutboundPayments` with `PaymentPromise`, `EventPump`
with `AtLeastOnce`, `ChannelControl`, `Routes`, `Receiving`, `Listings` with
`HoldInvoices`, `WorkerPool`; proofs of all eight.

Could follow: what notifications say about a channel (`events.rs:119`), once there is a
property that tells their contents apart.

### Not modelled

* **Graph listings, balance and info**: single reads of ldk-node's state, reformatted.
  They keep no state and order nothing; the sums of balances are pure arithmetic far
  below the width of its integers.
* **Start-up and configuration** (`main.rs`, `lib.rs`, the builder in `ldk_service.rs`):
  straight-line I/O that either serves or aborts.
* **`nostr-ln`: service, transport and grants**: not in the repository. Requests
  arrive in the models at any time and in any order.
* **Amounts of URIs** (`bip321` text, millisatoshis against satoshis): a computation on
  one request; a model of it would be the same division again. Section 7 tells it.
* **The `payment_method` filter** of `list_payments_filtered`: both callers pass `None`.
* **CLTV deltas** of routes, expiry, labels and descriptions of instructions: carried
  through, and compared with nothing.
* **The container and end-to-end harnesses**: not part of the program.
