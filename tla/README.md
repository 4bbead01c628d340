# Formal model of the cluster-tax simulations

This directory holds TLA+ specifications of the provenance-tag fee
mechanism simulated by the scripts in `src/cluster-tax/scripts/`. It also
has the TLC configurations that model-check them on small instances, and
TLAPS proofs of the results that hold for every value of the constants.
`PROJECT.json` lists every run, mutant, finding, hazard and theorem, and
maps each definition to the source lines it translates.

## The system

The scripts are single-threaded Python simulations of one idea: a
transfer pays a fee whose rate grows with the wealth that the coins
"come from". The scripts are variants of it, and each variant has the
same four parts (spec.md section 4):

* **FeeCurve**: effective wealth to a rate.
  The curves are sigmoid, linear, three-segment, flat or progressive.
* **ClusterLedger**: the attributed wealth of each cluster.
* **ProvenanceVector**: the tags, a weight per cluster.
  Tags are decayed on every hop, mixed or blended by value, and pruned.
* **TransferEngine**: one call does the whole transfer.
  It charges the fee, debits the sender, decays and moves the tags,
  updates the ledger, credits the receiver and burns the fee.

The variants differ in three ways:

* the holder of value: accounts in `gini_account_model`,
  `gini_cluster_model`, `gini_10yr_model`, `botho_fee_model`,
  `cadence_fee_model` and `gini_single_step`; UTXOs in the others;
* how provenance is kept: a tag vector, one scalar `cluster_wealth` or
  `tag_weight`, or a public tag;
* how the inputs are selected.

Nothing runs concurrently. Every handler runs to completion, and the
harness calls them one after another. So interleaving has no role. What
is hard to test is the long sequence of calls that reaches a bad state:
integer and float rounding at every hop, a value read once and used
later (a round's cached table, `max_wealth`), selection loops that stop
early, and branches that drop value.

## Modules

There is one module per script or family of scripts. Each module has an
`MC_` module and one or more `.cfg` files that instantiate it.

| Module | Models | State | Actions |
|---|---|---|---|
| `ProvenanceTags` | `gini_account_model.py` `apply_decay`, `mix_tags`, pruning | (operators) | `Prune`, `ApplyDecay`, `MixTags` |
| `ClusterLedger` | `ClusterWealth.apply_delta` and its clamp | (operators) | `Clamp`, `ApplyDelta(s)` |
| `AccountTransfer` | `gini_account_model.py` `execute_transfer`, `run_round`, `create_accounts` | balances, tags, ledger, fees | `Transfer` (guard and fee), `Settle` |
| `UtxoTransfer` | `gini_utxo_model.py` `transfer` | UTXO set with tag vectors, fees | `Transfer` (selection, fee, blend, decay, dust) |
| `ReferenceTransfer` | `provenance_reference.py` `UTXOSet.mint`, `transfer` | UTXO set, raised flag | `Mint`, `Transfer` with any id list |
| `ScalarAccount` | `gini_10yr_model.py`, `botho_fee_model.py`, `cadence_fee_model.py` | balances, `cluster_wealth`, fees, counters | `Next` for the script fixed in Init (`script`) |
| `WealthClusterTax` | `wealth_cluster_tax.py` | UTXO set with `cluster_wealth` | `HarnessRound`, `DirectCall` |
| `ScalarUtxo` | `gini_simple_utxo.py` (and `gini_3segment.py`, which repeats it) | UTXO set with `tag_weight` | `Transfer` |
| `FeeCurve` | `flat_`, `linear_`, `three_segment_` and `progressive_fee_rate` | curve, `max_wealth`, scanned wealth | `Scan` |
| `SingleStep` | `gini_single_step.py` `run_multiple_rounds` | wealths, `max_wealth`, turn, round, fees | `StartRound`, `Pay` |
| `ClusterTagModel` | `gini_cluster_model.py` `transfer`, `run_round` | balances, tags, the round's cached table, fees | `StartRound`, `Transfer` |
| `UtxoDebug` | `utxo_debug.py`: both analyses, lockstep | UTXO set with tags and `inherited_wealth` | `Transfer` |
| `TagDrift` | `tag_drift_simulation.py` `mint`, `transfer`, `run_simulation` | UTXO set with public tags | `Transfer` |

The modules share these conventions:

* **Dicts of tags** become total functions `Clusters -> 0..Scale`, with
  0 meaning "no key". This is exact because the prune threshold is at
  least one unit.
* **Floats** become whole units.
  * A floor or product is translated with the same rounding as the code.
  * Where the code divides floats, the model allows both roundings
    (`TagDrift`'s average), or keeps an exact rational as numerator over
    denominator (`FeeCurve`).
* **The sigmoid** `rate_bps` uses `exp`, which TLC's integers cannot
  represent. It is replaced by its range: any integer fee between the
  floors at `r_min_bps` and `r_max_bps`. So every property is checked
  for every rate the curve can return.
* **Random draws** of the harnesses become `\E` over small sets.
  Examples are the Pareto or lognormal wealths, the amounts and the
  recipients. The harness's sender floors and amount caps are kept as
  guards (`Amounts` in `TagDrift`, `HarnessRound` in `WealthClusterTax`).
* **Refused transfers** are stutters: the code returns `False` and
  changes nothing.
* **Bounds.** Every run bounds its transfers with a history counter,
  `transfers < MaxTransfers`.

`UtxoDebug` composes the two analyses of `utxo_debug.py`.

* Both build the same economy with `create_agent`.
* Both run the same transfers: spend the sender's first coin, then pay
  and return change.
* So a coin's id, value and owner evolve identically in the two
  analyses.
* Each coin carries both annotations: the tags of `analyze_tag_spreading`
  and the `inherited_wealth` of `test_alternative_approach`. This lets
  the project compare the cheap model with the tag model it is meant to
  replace.

## Runs

Pass runs check every listed property in every reachable state. Each of
their properties has a mutant in `PROJECT.json`: a plausible bug in a
mapped definition that makes TLC report the property violated. For
example:

* a dropped clamp;
* a fee counted as paid to the receiver;
* a SUM loop with `=` for `+=`;
* a tag average divided by the amount instead of the input value.

| Run | Expect | Properties, and what they show |
|---|---|---|
| `account_pass` | pass | `Conservation`; `AttributionBounded` (no cluster is held beyond its mint); `LedgerBounded`; `TagMassBounded` (no vector above `TAG_SCALE`); the action property `AttributionNeverGrows` (no transfer raises a cluster's attributed mass) |
| `utxo_pass` | pass | `SupplyLeakBounded` (only dust is lost); `AttributionBounded`; `TransferPaysAmountAndFee` |
| `reference_pass` | pass | `NoValueCreated`; `SourceMassBounded` |
| `scalar_account_pass` | pass | `Conservation`; `ClusterWealthBelowBalance`, for each of the three scalar account scripts |
| `wealth_cluster_pass` | pass | `Conservation`; `ClusterWealthBounded` |
| `scalar_utxo_pass` | pass | `SupplyLeakBounded`; `TagMassNonIncreasing` (no transfer raises total value × `tag_weight`) |
| `fee_curve_pass` | pass | `FeeMonotone`: the scripts' own curves never lower the rate as wealth grows |
| `single_step_pass` | pass | `Conservation`; `WealthStaysPositive` (the skip of agents without wealth is dead code) |
| `cluster_tag_pass` | pass | `Conservation`; `TagsSumAtMostOne`; `CacheNeverUnderstates`; `ClusterWealthNeverGrowsInRound` (an action property: within a round no step raises any cluster's wealth) |
| `utxo_debug_pass` | pass | `SumWithinInherited` |
| `tag_drift_pass` | pass | `Conservation`; `TagRangeNeverWidens` |
| `reference_atomic` | violation | `AtomicTransfer`: a repeated input id raises `KeyError` after a partial spend |

Every pass run except `fee_curve_pass` also checks its module's `TypeOK`. `FeeCurve`'s `TypeOK` only types the wealth scan; it is kept as a step of the monotonicity proof and is not run.

Some properties relate two parts of the state or two moments:

* `TransferPaysAmountAndFee` (`gini_utxo_model.py`). This is an action
  property over balances, agent by agent. In every transfer the receiver
  gains exactly the amount. The sender loses the amount, the fee and at
  most `Dust` of change not given back. The fee is within the `r_max`
  rate, and no other agent's balance moves. Inputs are selected against
  an `r_max` estimate, and the fee is recomputed afterwards, so a change
  taken from the wrong figure or an output given to the wrong owner
  breaks it, although the total supply still adds up.
* `CacheNeverUnderstates` (`gini_cluster_model.py`). `run_round`
  computes the cluster wealth table once, and every transfer of the
  round reads it. The property says this stale table never gives a
  sender a lower effective wealth than fresh figures would. Every
  transfer lowers or keeps each cluster's wealth, because the fee and
  the decay leave the cluster. So the cache can only overcharge.
* `SumWithinInherited` (`utxo_debug.py`). On the same transfers, the
  tag model's SUM effective wealth never exceeds the inherited-wealth
  model's. The `int()` of the tag decay and the pruning only lose
  attribution.
* `TagRangeNeverWidens` (`tag_drift_simulation.py`). This is an action
  property: no transfer creates a coin whose tag lies outside the tags in
  circulation before it. It holds with the float average rounded either
  way. It is the premise of the script's question of how fast tags
  converge.

### Finding

`reference_atomic` (`provenance_reference.py:116`) is a code bug.

* `input_ids = [0, 0]` passes the gathering loop and counts coin 0 twice.
* The spend loop pops coin 0, then raises `KeyError` on the second pop.
* The coin is gone and no output was minted.

### Known divergences

The following disagreements with spec.md came up while the modules were
written. Each one is a short trace of the modelled code. No run of the
project checks them: the runs keep the bound the code does respect.
The `hazards` of `PROJECT.json` note each one at its line.

* **Ledger drained by rounding** (`gini_account_model.py:111`).
  * Two 1-coin transfers from one sender each credit `floor(0.95) = 0`
    arriving mass, and the sender's cluster ledger reaches 0.
  * Meanwhile the receiver still holds that cluster's weight.
  * Its next spend is clamped away silently, against spec sections 4.2,
    7 and 9.
  * `LedgerBounded` is checked.
* **Decay rounded in the holder's favour** (`gini_account_model.py:39`).
  * `weight * decay_rate // TAG_SCALE` rounds the decay down.
  * A weight of 31666 keeps 30083 after a 5% hop, above the
    `(1-d) × input` bound of spec section 8.
* **Dust change destroyed** (`gini_utxo_model.py:347`,
  `gini_simple_utxo.py:167`). Change of 0.01 or less is neither
  returned nor counted as a fee. `SupplyLeakBounded` bounds the loss.
* **Self-splits decay tags** (`gini_utxo_model.py:350`), against the
  split resistance of spec section 8.
* **The reference engine mints no change** (`provenance_reference.py:124`).
  Also, an empty input list divides by zero (`:104`). `NoValueCreated`
  is checked.
* **The redistributed fee is counted twice** (`gini_10yr_model.py:124`).
  With `redistribute` on, the fee is added to `total_fees` and also
  paid to retail. The run uses the burn policy.
* **Payable transfers refused** (`wealth_cluster_tax.py:89`).
  * Selection stops once the amount alone is covered.
  * With a 5% fee, two coins of 20 cannot pay 20.
* **Three-segment rates unchecked** (`gini_3segment.py:113`).
  * `r_mid_end = 20%` above `r_rich = 15%` is accepted, and the rate
    falls at `w2`.
  * This is why `FeeMonotoneHolds` assumes ordered rates.
* **Progressive rate above 30%** (`gini_single_step.py:113`).
  * An agent paid before its turn exceeds the `max_wealth` read at the
    start of the round.
  * It is then charged more than the docstring's 30%.

## Bounds

TLC's integers are 32-bit.

* `TAG_SCALE` is divided by 10 in `AccountTransfer` and `UtxoTransfer`,
  and by 1000 in `ClusterTagModel` and `UtxoDebug`. The prune threshold
  is divided with it, so both ratios are kept: 0.1% (0.01% in the
  account model) and 5% decay per hop.
* Values are a few units. Where a dust threshold matters, the unit is
  0.005 coins, so the 0.01 threshold is 2 units.

The runs use two to four agents and three to five transfers. The bounds
are chosen so that the cases that matter happen:

* a sender with several coins of different sizes, so that selection
  takes one, two or all of them;
* a receiver that already holds coins;
* chains of two and three hops, so that decayed tags are decayed again;
* fees of 0 and of 1;
* change of 0, at the dust threshold and above it;
* a zero-value coin (`astype(int)` of a small Pareto share) in
  `TagDrift`;
* a round with transfers after its table was cached, in
  `ClusterTagModel`.

Symmetry over agents is declared wherever Init and Next name no agent.
The largest run, `cluster_tag_pass`, has about 480 000 states. With
five transfers instead of four, `account_pass` takes almost three
minutes and finds nothing new.

## Fairness and liveness

None is assumed. Each simulation is a bounded loop of synchronous calls,
and the harness may stop after any round, hence `CHECK_DEADLOCK FALSE`.
No code path waits for another. Every property is a safety or action
property.

## Proofs

Seven modules hold TLAPS proofs, and `tlapm` checks every obligation.
`SumLemmas.tla` is the library the others use.

`AccountTransfer_proofs.tla` proves `THEOREM TypeCorrect == Spec => []TypeOK`.

* **Assumptions:** `Scale > 0`, `1 ≤ PruneThreshold ≤ Scale`,
  `0 ≤ DecayRate ≤ Scale` and `0 ≤ RMinBps ≤ RMaxBps ≤ 10000`.
* **Inductiveness.** `TypeOK` is inductive as it stands. Its conjunct
  "every weight is its own pruning" carries what the mix needs.
* **Lemmas:**
  * `FeeWithinAmount`;
  * `DecayType`;
  * `MixType`: `(sv·sw + iv·iw) ≤ (sv+iv)·Scale`, so the floored
    average is a weight;
  * `DeltasNat`;
  * `SettleTypeOK`, which combines them for one transfer.

`AccountTransfer_invariants.tla` proves the four invariants of
`account_pass` and its action property, for every finite set of
accounts, weight scale, prune threshold, decay rate and fee range:

* `ConservationHolds`, `TagMassBoundedHolds`,
  `AttributionBoundedHolds` and `LedgerBoundedHolds`, each
  `Spec => []P`;
* `AttributionNeverGrowsHolds` (`Spec => AttributionNeverGrows`).

Their assumptions are those of `TypeCorrect`, and one more:
`ClustersFinite` in `ProvenanceTags`. The cluster ids are the keys of
a dict, so they are finite.

The argument:

* **Inductive invariant.** `IInv` is `TypeOK ∧ Conservation ∧
  TagMassBounded ∧ AttributionBounded ∧ LedgerBounded`. TLC checked it
  on the run's states before it was proved. `LedgerBounded` is not
  inductive alone. When `apply_delta` clamps a departing mass at
  zero, the arriving mass credited next is bounded only through the
  sender's share of the cluster's attribution (`HolderBelowAttribution`).
  That share is bounded by `AttributionBounded`.
* **Mixing.** `MixTagsBound` shows `(sv+iv)·mix[c] ≤ sv·st[c] +
  iv·it[c]`: the floor and the pruning only lower a weight.
  `MixTagsMassBound` sums this over the clusters, which gives
  `TagMassBounded`. `DecayBelow` shows decay never raises a weight.
* **The transfer.** `AttributionTerms` shows that the sender's term
  falls by `amount·ts[c]`, and that the receiver's term grows by at
  most `net·tin[c] ≤ amount·ts[c]`. `SumTwoPoints` then gives both
  `AttributionNeverGrows` and `AttributionBounded`. `Conservation`
  follows in the same way from the two balance updates and the fee.
* **The ledger.** The departing and arriving masses are floors of
  attributions (`DivMono`, `DivBelow`). `LedgerStep` shows that
  `clamp(clamp(w − L) + A) ≤ B` whenever `A ≤ L`, `w ≤ B` and `L ≤ B`.

`ScalarAccount_proofs.tla` proves the three invariants of
`scalar_account_pass` for all three scalar scripts at once, for every
finite population, decay, fee configuration and bound. The scripts
differ only in the fee range and the shares. `NextSettles` reduces
every step to one `Settle` between two different agents (`PaysDistinct`).

* **`TypeCorrect`** and **`ClusterWealthBelowBalanceHolds`** hold under
  one hypothesis, `CadenceRateBounded`: every cadence base rate times
  `factor_max` is at most 10000 bps. `CadenceFeeConfig` does not check
  this. Above it the fee exceeds the amount, and `transfer` credits the
  receiver a negative net, which breaks both properties. The script's
  five configurations reach at most 400 bps. The gini_10yr rates are
  bounded by `RMaxBps ≤ 10000`, and botho's by its 10% cap
  (`BothoBpsBound`). The inductive invariant is `IInv == TypeOK ∧
  ClusterWealthBelowBalance`, the run's own invariants.
  * `SenderWealthBound`: `max(0, cw − amount)` stays within the new
    balance.
  * `ReceiverWealthBound`: `⌊cw·(100−d)/100⌋ + net·d ≤ (b + net)·100`
    when `cw ≤ b·100` and `d ≤ 100`.
  * `SettleStep`: the shares of the redistribute policy only add to a
    balance. So the bound holds under both policies.
* **`ConservationHolds`** assumes `~Redistribute`. With redistribute on,
  the fee is counted twice (see the known divergences), and the
  property is false. It needs no rate hypothesis. Its invariant `CInv`
  types the balances as integers only, so a fee above the amount does
  not matter. `SettleConserves` applies `SumTwoPoints` to the two
  balance updates.
* **Assumption.** A new `ASSUME AgentsFinite` in `ScalarAccount`:
  `create_lognormal_agents` makes a list of agents.

`FeeCurve_proofs.tla` proves `THEOREM FeeMonotoneHolds`.

* **Statement.** Assuming `\A c \in Curves : OrderedCurve(c)`, it proves
  `Spec => FeeMonotone` for every set of configurations, every
  `max_wealth` and every pair of integer wealths. `OrderedCurve` is
  `r_min ≤ r_max`, and `r_poor ≤ r_mid_start ≤ r_mid_end ≤ r_rich`.
* **Structure.** `NumMonotone` splits on the curve kind:
  * `LinearMonotone`: `min(w, M)` rises with `w`;
  * `ThreeSegmentMonotone`: over the common denominator
    `D = M·(w2-w1)`, the middle segment lies between `r_mid_start·D`
    and `r_mid_end·D`, and the segments come in the order of the
    wealths;
  * the flat and progressive curves are immediate.
* **Why the hypothesis is needed.** `three_segment_fee_rate` accepts
  inner rates out of order (see the known divergences). Such a rate
  steps down at `w2`.
* **Helper lemmas.** `MulMono` and `BpsInt` give the provers the
  arithmetic facts they do not find alone.

`SumLemmas.tla` holds lemmas about `SumFunction` and
`MapThenSumSet`, the sums the conservation and weight properties are
stated with.

* **Approach.** The community `MapThenSumSet` is a fold over
  `CHOOSE`. The lemmas unfold it once (`SumUnfold`). They then prove
  what it computes by induction over finite subsets. `SubsetInduction`
  is derived from a minimal counterexample (`MinimalSubset`, on
  cardinality).
* **Why functions.** The library's induction theorems take an operator
  parameter, which the provers cannot instantiate. So every lemma is
  about `Sum(g, S)` for a *function* `g`, with
  `Sum(g, S) == MapThenSumSet(LAMBDA x : g[x], S)`.
* **The lemmas.**
  * Structure: `SumEmpty`, `SumRemove`, `SumAdd`.
  * Bounds: `SumInt`, `SumNat`, `SumMonotone`.
  * Arithmetic: `SumScale`, `SumPlus`.
  * Updates: `SumFunctionExcept` and `SumTwoPoints` (a sum after one or
    two entries change), `SumOnePoint`.
  * Maxima: `MaxIsLargest`, `MaxDominated`, `RangeFinite`.
  * Arithmetic the sums are used with: `MulLeq`, `DivFacts`,
    `MulCancel`, `DivBelow`, `DivMono`, and `TermBelowSum` (one term of
    a sum of naturals is at most the sum).

`SingleStep_proofs.tla` proves
`THEOREM ConservationHolds == Spec => []Conservation`. It holds for
every number of agents, every curve and every starting wealth.

* **Inductive invariant.** `IInv` adds to `Conservation` that wealths
  and fees are integers and that `max_wealth` is positive. The fee
  divides by the curve's denominator, which is positive only when
  `max_wealth` is.
* **The step.** A payment is two one-entry updates of `wealths`. Each
  changes the sum by its difference (`SumFunctionExcept`).

`ClusterTagModel_proofs.tla` proves five theorems, for every
population, weight scale, decay, prune threshold and fee range:

* `TypeCorrect` (`Spec => []TypeOK`);
* `ConservationHolds`;
* `TagsSumAtMostOneHolds`;
* `CacheNeverUnderstatesHolds`;
* `ClusterWealthNeverGrowsInRoundHolds`, the action property.

Their assumptions:

* the agent types are finite and pairwise disjoint;
* `Scale > 0` and `0 ≤ DecayPct ≤ 100`;
* the fee bounds are natural numbers;
* `MaxRounds ≥ 1`, because `Init` is the first round.

The argument:

* **Inductive invariant.** `IInv` is `TypeOK ∧ Conservation ∧
  TagsSumAtMostOne ∧ CacheCovers`. `CacheCovers` says the cached table
  is at least every cluster's current wealth. TLC checked `IInv` on the
  run's 480,905 states before it was proved.
* **Why `CacheNeverUnderstates` needs strengthening.** It compares two
  maxima. A max can hold even when one cluster's figure has already
  grown past its cached one, so it is not inductive alone. The proof
  carries the per-cluster comparison `CacheCovers` instead. It then
  gets the max from `EffectiveWealthMonotone`, built on `MaxDominated`.
* **Mixing.** `MixBound` shows each mixed weight is at most
  `(old·tr[k] + amount·tin[k]) / (old + amount)`. Pruning only lowers
  it. `MixSumBound` shows the mix sums to at most `Scale` when both
  inputs do. `IncomingSum` shows the decayed weights sum to no more
  than the sender's.
* **The transfer.** `TransferTerms` shows the sender's term falls by
  `(amount + fee)·ts[k]`. The receiver's term grows by at most
  `amount·tin[k] ≤ amount·ts[k]`. So `SumTwoPoints` gives that no
  cluster's wealth grows, which yields both `CacheCovers` and the
  action property.
* **`StartRound`.** It sets the cache to the wealths themselves.

### What stays with TLC

* **Modules that reach `RECURSIVE`.** `UtxoTransfer`,
  `ReferenceTransfer`, `ScalarUtxo`, `WealthClusterTax` and `UtxoDebug`
  use `SequencesExt` (to order coins and inputs) or declare recursive
  operators. A module that reaches one loses the SMT backend, so their
  invariants are model-checked only.
* **`TagDrift`'s invariants.** Its `Value` sums a field of coin
  records, `MapThenSumSet(LAMBDA u : u.value, S)`. `SumLemmas` is
  stated for sums of a function `g[x]`, and a function over all coins
  cannot be given to TLC, because coin ids range over `Nat`. So
  `Conservation` and `TagRangeNeverWidens` would need fold lemmas of
  their own, and they stay TLC-checked.
* **`SingleStep`'s `TypeOK` and `WealthStaysPositive`.** The
  progressive curve reads the stale `max_wealth` without a clamp (see
  the known divergences). With enough agents paid early in a round, a
  payer's wealth can exceed the stale maximum by so much that its fee
  exceeds its wealth. So these hold only on bounded instances like the
  run's, and no theorem states them for every constant.
* **Liveness and ENABLED.** There is no liveness here; they would also
  stay with TLC.
* **Refinement.** No module is stated as a refinement of another. The
  scripts are independent simulations of one design, not layers of
  one program.

## Not modelled

* `calculate_gini` and the other metrics (`record_metrics`,
  `tag_statistics`, the wealth-versus-tag analysis) read state and
  change nothing. No property depends on them.
* The sigmoid's shape is not modelled, for either `rate_bps` or
  `calculate_cluster_factor`: `exp` is out of TLC's integers. Every
  model allows the sigmoid's whole output range instead. So a property
  that holds, holds for any sigmoid parameters. A property that needs
  the shape, for example a monotone sigmoid fee, is not checked; the
  piecewise curves are checked and proved instead.
* `analyze_fee_rates` of `utxo_debug.py` only prints sigmoid rates.
* The MAX and DOMINANT aggregations of `utxo_debug.py` only read the
  coins for the printed comparison. DOMINANT ≤ MAX ≤ SUM holds by their
  shape whatever `max()` does with ties, so only SUM is modelled.
* Figures, plotting and printing (`generate_figures.py`,
  `plot_gini.py`) are pure I/O.
  `generate_figures.py`'s copies of the piecewise curves are the
  `FeeCurve` operators.
* The random generators, seeds and the exact amounts and probabilities
  of the harnesses are replaced by nondeterministic choice over small
  sets.
