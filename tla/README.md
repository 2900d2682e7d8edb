# TLA+ models of the schnorr-mpc storeman engine

This directory holds TLA+ models of the storeman multi-party computation (MPC) engine in `src/`. TLC checks the models. The engine has several parts:

- A **Distributor** (not in `src/`). It owns one **protocol context** per run id.
- **Contexts** walk an ordered list of **steps**. Each step has four phases:
  - `InitStep` reads the Result Store.
  - `CreateMessage` sends this round's messages.
  - `HandleMessage` is called once per inbound message. It returns `true` when the message counts toward the step's `waiting` count.
  - `FinishStep` runs when `waiting` reaches 0, or fails on the round timeout. It writes the round's outputs.
- `BaseStep`, `BaseMpcStep`, `MpcContext`, the Distributor, `GetMpcReadyStep`, `CreateMpcGPKStep`, the point and Lagrange generators, `EvaluatePoly` and `Lagrange` are **not in this source tree**. Definitions that stand for them are modelled from `spec.md` (sections 4.1–4.3) and are marked `spec_modelled` in `PROJECT.json`.

## Inventory (survey)

| Component | Source | State | Operations | Hard behaviour |
|---|---|---|---|---|
| GPK generation assembly | `storeman/storemanmpc/mpc_create_gpk.go`, steps `mpc_reqmpc_step.go`, `mpc_ackmpc_step.go`, `mpc_ready_step.go`, `mpc_skshare_step.go`, `mpc_skpoly_generator.go`, `mpc_point_step.go`, `mpc_ack_gpk_step.go`, `mpc_result.go` | per node: context step, waiting count, step message map, KO list, Result Store (private share, GPK); seeds assigned by the leader | leader request, follower admission (seed checks), ack/ready handshake, SKShare (JRSS), point publication with signature, AckGPK cross-check, round timeout | message loss, duplication, reordering; messages for a later step or for a node without a context; tampered point; duplicate deliveries counted twice |
| Lock-account assembly | `storeman/storemanmpc/create_lock_account_mpc.go` | as GPK | same admission and handshake as GPK, then JRSS, address, ack | the same seed admission code as `ackGPKMpc` |
| Seed admission | `mpc_create_gpk.go:29-43`, `create_lock_account_mpc.go:27-41`, `mpc_reqmpc_step.go:31-45` | the peer list with seeds | leader draw in `[1, 0xFFFFFE]`, follower check `> 0xffffff` and duplicate check | seed 0 (evaluation at 0 is the secret itself) and 0xFFFFFF are admitted |
| Share steps keyed by seed | `mpc_skshare_step.go:58-76`, `mpc_rskshare_step.go:57-72`, `schnorr/storemanmpc/step/mpc_jrss_step.go` | seed → share map | HandleMessage | a sender outside the run gets seed 0; the code logs and still stores the share and counts it |
| Signing assembly (schnorr) | `schnorr/storemanmpc/tx_sign_mpc.go`, `txsign_lagrange_step.go`, `txsign_calsign_step.go`, `mpc_jrss_step.go` | nonce shares, points, Lagrange result, signature | JR/JZ sharing, point, Lagrange, CalSign | Lagrange over map order; errors in the signer-address check return nil |
| AckRS | `storeman/storemanmpc/step/mpc_ack_rs_step.go` | per peer received R and S | broadcast R, S; FinishStep verifyRS | the peers' count is never compared with the peer set; a short message counts but is never checked |
| Slashing judge | `storeman/storemanmpc/step/mpc_rskjudge_step.go` | slash counter, proof records | CreateMessage per detected error, HandleMessage judging the accused | no deduplication; the claim's receiver index is trusted (not bound to the message sender or the signature); a signature failure is overridden by the content check; the proof record overwrites a field |
| S generator | `storeman/storemanmpc/step/mpc_s_generator.go` | signature shares by seed | initialize (SchnorrSign), calculateResult (Lagrange) | iteration order of a Go map |
| Peer registry (two copies) | `storeman/storeman.go`, `schnorr/storeman.go` | peer map under a lock, static storeman list | HandlePeer (insert, handshake, deferred removal), checkPeerInfo (re-dial), Peers, SignData | a peer is left registered after a failed handshake in `storeman/storeman.go`; unlocked reads |
| Group directory | `storeman/osmconf/osmconf.go` | a never-initialised singleton | getters | every getter unlocks a lock it never took; `Difference` assumes a subset |
| Approval validator | `storeman/validator/validator.go` | persisted-approval store | waitKeyFromDB polling until MPCTimeOut, ValidateData | ValidateData always returns true |
| Boot nodes, types | `params/bootnodes.go`, `storeman/schnorrmpc/types.go`, `*/protocol/*.go` | constants | none | none (not modelled) |

## Plan

The modules, in order of importance:

1. **`MpcMath`**: field arithmetic over Z_P. `EvalPoly`, the share sum (`calculateResult`) and Lagrange interpolation at 0 are operators.
2. **`GpkRun`**: the GPK generation run for every node of the peer set over an unreliable network. Instantiated by `MCGpkRun`. Done.
3. **`SeedAdmission`**: the leader's draw (a refinement of `SeedAssignment`) and the follower's admission check. It is checked against the spec's requirement that seeds are non-zero and in `[1, 0xFFFFFE]`. Done.
4. **`SignRun`**: the S step and the AckRS step of a signing run, with a faulty peer. Done.
5. **`RSkJudge`**: the slashing judge, with a cheating sender and forged accusations. Done; duplicated judge messages remain.
6. **`PeerRegistry`**: `HandlePeer` of both storeman copies, including handshake failures. Done.
7. **`TxSign`**: the schnorr copy's transaction signing (ARLag and CalSign). Done for one signature.
8. The validator's poll was planned, but `waitKeyFromDB` is reached only from commented-out code (see Not modelled).

## Modules and runs

### `MpcMath`

Curve points are represented by their discrete logarithm with generator 1, so `s*G` is `s` and point addition is addition mod P.

- `EvalPoly` is Horner evaluation mod P.
- `SumMod` is `calculateResult` in `mpc_skpoly_generator.go`.
- `LagrangeAt0` is the reconstruction.

### `GpkRun` / `MCGpkRun`

**State.**

| Variable | Meaning |
|---|---|
| `ctx[n]` | The step id of n's context, or NoCtx / Done / Failed. |
| `waiting[n]` | The current step's waiting count (`BaseStep.waiting`). |
| `seed` | The seeds the leader drew. |
| `recv[n]` | The current step's message map: keyed by sender in Request, Point and AckGPK, and by sender seed in SKShare. |
| `ko[n]` | `rpkshareKOIndex`. |
| `privShare`, `gpk` | The Result Store values `MpcPrivateShare` and `MpcContextResult`. |
| `net` | The messages in flight. |
| `lost`, `dups` | Fault counters, bounded by `MaxLoss` and `MaxDup`. |

**Actions.**

| Action | What it models |
|---|---|
| `RequestGPK` | `reqGPKMpc` together with `RequestMpcStep` Init and CreateMessage. |
| `AckGPK` | `ackGPKMpc` admission, context creation and the ack broadcast. |
| `AckMsgs`, `ReadyMsgs` | The messages `AckMpcStep.CreateMessage` and `MpcReadyStep.CreateMessage` send to every peer. |
| `Handle*` | Each step's `HandleMessage`. |
| `Finish*` | Each step's `FinishStep` followed by the next step's Init and CreateMessage. |
| `Timeout` | The round timeout. |
| `Discard` | The Distributor dropping a message no context takes. |
| `Lose` | Transport loss. |

**Network handling.**

- A message for a later step waits in `net`; this models the step's buffered channel.
- Messages for a step already left, or for an ended context, are removed when the node moves on, because nothing can read them again.
- The tampered point of a node in `Faulty` carries a different value with a signature that fails.
- The GPK point step is built by `CreateMpcGPKStep`, which `mpc_create_gpk.go:57` calls but which has no source under `src/`. `HandlePoint`, `FinishGPK` and `PublishedPoint` are therefore modelled from the specification, on the pattern of `MpcPointStep` (the R-point step of signing). A peer that signs its own wrong point is not modelled: every node would agree on the wrong key, and the code of the step that would have to notice is not available. No run checks the group key the nodes agree on.

**Bounds.**

- Three nodes with threshold 2 (`Degree = 1`), over the field Z_5.
- Fixed polynomials whose evaluations all differ from the secret, so a missing or doubled share changes the result.
- One seed draw. Every draw is a permutation of the pool, and the properties do not depend on which peer gets which seed.
- At most one loss (`MaxLoss = 1`) and one duplicate (`MaxDup = 1`). One duplicate is enough to reach every dedup path, and one loss is enough to reach every timeout path.

**Runs.**

| Run | cfg | What it checks |
|---|---|---|
| `gpk_safety` | `MCGpkRun.cfg` | `TypeOK` and `SharesReconstructSecret` with loss, duplication, a tampered point and timeouts. About 3.0M states. |
| `gpk_liveness` | `MCGpkRunLive.cfg` | `RunCompletes`: if nothing is lost and no context fails, every node completes. |

**Known divergence, no longer run.** `MpcPointStep.HandleMessage` (`mpc_point_step.go:107`) appends a peer whose point fails its signature check to `rpkshareKOIndex` and returns `true` without recording the point. A duplicate of that message is therefore listed and counted again. An earlier run of this model with one duplicate and a tampered point showed the KO list holding the same peer twice. The project keeps its runs for other questions now, and the hazard is listed in `PROJECT.json` with this note.

**Fairness.** The liveness run assumes weak fairness on:

- the leader starting;
- each node's receive path, which is the Distributor's read loop;
- each node's step handling and finishing, which is the context goroutine.

The transport, losses and the timers get no fairness.

### `SeedAssignment` and `SeedAdmission`

`SeedAssignment` is the abstract promise of spec 4.3: at one step, every peer of the run gets a distinct seed in `[1, 0xFFFFFE]`.

`SeedAdmission` models two loops:

- **The leader's draw loop** (`RequestMpcStep.InitStep`, `mpc_reqmpc_step.go:31-45`).
  - `DrawSeed` is one iteration of the inner `for`: a draw of `rand.Intn(0x0FFFFFE) + 1`, retried for the same peer on a collision.
  - The draws come from `IntnSample`, which holds the bounds 0 and 0xFFFFFD and a value that collides.
- **The follower's admission loop** (`ackGPKMpc`, `mpc_create_gpk.go:29-43`).
  - `AdmitItem` is one iteration, with its two early returns.
  - `AdmitDone` is context creation. A request reaches one of two entry points (`req.entry`): `ackGPKMpc`, whose builder `genCreateGPKMpc` cannot fail, or `acknowledgeCreateLockAccountMpc` (`create_lock_account_mpc.go`), whose loop is the same code and whose builder `generateCreateLockAccountMpc` returns `ErrQuit` (verdict `quit`) unless `MpcStmAccType` was preset as a byte value (`ContextCreated`).
  - The preset values (`req.preset`, up to two `MpcValue`s over two keys, each with `Value` and `ByteValue` nil or not) go through `InitializeValue` (`ByteKeys`): an entry with a non-nil `Value` is stored in `Result` only, so its `ByteValue` is lost. `GetByteValueOK` is `GetByteValue`'s lookup.
  - `RequestMpcStep` draws the peer list only for `MpcGPKLeader` (`mpc_reqmpc_step.go:31`); the lock-account leader (`MpcCreateLockAccountLeader`) sends no drawn list. `ReceiveDrawn` therefore always delivers a gpk request (whose builder cannot fail), and lock-account requests arrive only through `ReceiveOther`.
  - The list the follower checks is either the one the conforming leader drew (`ReceiveDrawn`) or any list over `WireValues` that another peer put in a request (`ReceiveOther`).
  - `WireValues` holds the values on both sides of every bound: 0, 1, 0xFFFFFE, 0xFFFFFF and 0x1000000.

The refinement mapping `Drawn` exposes the leader's list once the loop has ended. `DrawRefinesAssignment` checks `SeedAssignment!Spec` under this mapping.

| Run | cfg | What it checks |
|---|---|---|
| `seed_admission` | `MCSeedAdmission.cfg` | `DrawRefinesAssignment`; `ConformingListAdmitted` (nothing the GPK leader draws is refused by the follower's range and duplicate checks); `AdmittedSeedsDistinct`. About 2M states. |
| `seed_admission_range` | `MCSeedAdmissionRange.cfg` | Violation of `AdmittedSeedsInRange`: the check `> 0xffffff` admits seed 0 (whose share is the secret) and 0xFFFFFF. |

Three peers are enough: a collision needs two, and a duplicate that is not adjacent needs three.

### `RSkJudge` / `MCRSkJudge`

This module models the slashing judge of a signing run (`mpc_rskjudge_step.go`).

**What feeds the judge.** `SendShare` is `MpcRSKShare_Step.CreateMessage` (`mpc_rskshare_step.go`): node s sends peer r its nonce polynomial evaluated at r's x value. The code attaches no signature, so the model lets the share value stand for the one spec 8 describes. Nothing in `src/` writes the error tuples `MPCRSkErrInfos`, so the check against the commitment is modelled from spec 8/9 and marked `spec_modelled`:

- `CheckShare` checks a received share and records an error tuple when the check fails.
- A node in `Cheater` may send a share that does not match its commitment.
- A node in `Liar` may record a tuple with any claimed `sij` and any receiver index, but it keeps the signature it really received. The signature covers `sha256(sij)` only (`mpc_rskjudge_step.go:91`), so nothing stops the re-addressing. The liar sends well-formed judge messages itself (`LiarSend`).

**The judge step itself** is translated from the code:

- `CreateMessage` and `JudgeData` model the loop that re-allocates `ret`: one message survives, carrying a single field of the last tuple.
- `HandleMessage` checks the signature and then the content. `bSnderWrong` is decided by the content check alone, and a proof is saved if either check failed.
- `ProofRecord` is what `saveSlshProof` stores. It does not record which node sent the accusation.
- `FinishStep` saves the slash count (`SaveSlshCount`, the step's own `RSlshCount`). The step waits for 0 messages.
- `X` and `Leader` are `GetXValueByIndex` and `GetLeaderIndex`. In `osmconf.go` both are stubs that return 0. The model gives X distinct non-zero values, as the stubs' comments intend (x = hash(pk)). With the stub, every honest share would fail the content check. This is listed as a hazard.

**Bounds.** Three nodes over Z_5: leader 0, cheater 1, liar 2.

| Run | cfg | What it checks |
|---|---|---|
| `rsk_judge` | `MCRSkJudge.cfg` | `TypeOK` over every interleaving of the shares, the accusations (including the liar's forged ones) and the leader's judging and finishing. About 0.7M states. No safety property of the judge holds here: both violation runs below break the natural ones. |
| `rsk_judge_forged_claim` | `MCRSkJudge_HonestSenderNeverBlamed.cfg` | Violation of `HonestSenderNeverBlamed`: the liar forwards the share honest node 0 signed for it, names another receiver index, and the leader blames node 0. `HandleMessage` reads `rcvIndex` from the data (line 81) and never compares it with the peer the message came from. |
| `rsk_judge_wait` | `MCRSkJudge_JudgeWaitsForAccusations.cfg` | Violation: the leader finishes before the accusations reach it. |

The garbled judge message of `CreateMessage` (re-allocated `ret`, `data[i] = errInfo[i]`) is still modelled by `JudgeData`. Spec 9 already records it as an open question, so no run is kept for it.

### `PeerRegistry`

This module models `Storeman.peers`, the registry of connected group peers.

**Writers and readers.**

- The registry is written under `peerMu` by `HandlePeer`. The p2p layer runs `HandlePeer` in one goroutine per connection.
- It is read by `IsActivePeer`, `SendToPeer`, the `Peers` API and the `len(peers)` gates.

**The two copies of `HandlePeer`.** The variable `copy`, chosen at start from the constant `Copies`, selects which one runs:

- `storeman/storeman.go` registers the deferred delete after the handshake, so its failure path is `HandshakeFailKeep`.
- `schnorr/storeman.go` registers it before the handshake, so its failure path is `HandshakeFailRemove`.

**State.** `pc[p]` is where p's `HandlePeer` goroutine is (`idle`, `handshake` or `running`).

**The p2p layer.** It is outside `src/`. It runs at most one connection per id at a time, so `Register` requires `pc[p] = "idle"`.

**The unlocked `Peers` iteration.** `Peers` ranges over the map without the lock (`storeman.go:324`), which races with the locked writers. This is listed as a hazard. Go's runtime reacts to the overlap only sometimes, so the race is not modelled.

`checkPeerInfo` would re-dial the leader, but nothing starts it, so it is not modelled.

**Bounds.** Two group peers and one outsider, with `MaxConn = 2` connections each. Two connections per peer are enough for a reconnection after a failed handshake.

| Run | cfg | What it checks |
|---|---|---|
| `registry` | `MCPeerRegistry.cfg` | Both copies: `TypeOK` and `SchnorrPeersConnected` (in the schnorr copy every entry has a live connection). |
| `registry_storeman_leak` | `MCPeerRegistryLeak.cfg` | Violation: after a failed handshake the entry stays, so `IsActivePeer` and `len(peers)` count a dead peer. |

### `SignRun` / `MCSignRun`

This module models the tail of a signing run: the S step and the AckRS step.

**Starting state.** The model starts after key generation and nonce sharing:

- Every node holds its key share, which comes from `MCGpkRun`'s polynomials.
- Every node holds its nonce share, drawn from two nonce polynomials per peer.
- Every node holds the same group nonce point `R`.

**The S step.**

- `InitS` is `mpcSGenerator.initialize` followed by the step's broadcast. It computes `s_i = r_i + m·x_i`, where the signer's `m` is `HashS[R]` (sha256).
- `HandleS` stores shares by seed.
- `FinishS` is `calculateResult`. It interpolates over any `Degree + 1` of the received seeds, because a Go map's iteration order decides which ones `Lagrange` uses.

**The AckRS step.**

- `HandleRS` is `MpcAckRSStep.HandleMessage`: it deduplicates by peer, and stores values only when the message has three of them.
- `FinishRS` with `VerifyRS` is `verifyRS`. It checks every stored R, then every stored s, then `s = R + m·GPK`, where the verifier's `m` is `HashV[R]` (Keccak256).

**Faulty peer.** A faulty peer does not run the code. It may send each node its true share or another share, and in AckRS it may send:

- a short message;
- the group's s;
- another s;
- another R.

**Hash tables.** The two hashes are tables over Z_5. They agree on R = 3 and R = 4 and differ elsewhere. Over a field this small, two independent functions agree on some inputs. That agreement is what lets the model reach the accepting path.

| Run | cfg | What it checks |
|---|---|---|
| `sign` | `MCSignRun.cfg` | `TypeOK` over the S and AckRS steps with a faulty peer's inconsistent shares and AckRS messages; every action fires. About 0.9M states. The safety question of this step is answered by the violation run below. |
| `sign_hash_mismatch` | `MCSignRunVerify.cfg` | Violation of `SignatureVerifies`: with every peer honest, `verifyRS` rejects the s the S step produced, because the signer hashes `m` with sha256 (`mpc_s_generator.go:49,58`) and the verifier with Keccak256 (`mpc_ack_rs_step.go:133,156`). |

### `TxSign` / `MCTxSign`

This models threshold-ECDSA transaction signing in the schnorr copy (`schnorr/storemanmpc/tx_sign_mpc.go`, `step/txsign_lagrange_step.go`, `step/txsign_calsign_step.go`) for one signature.

The run's steps, in order:

- request or acknowledge;
- ready;
- JR/JZ, where each node gets shares of the random r, the nonce a and the zero polynomial c;
- AGPoint, which publishes a*G;
- ARLag, where every participant broadcasts a_i*r_i and interpolates a*r;
- CalSign, which computes R = (a*r)^-1 * aG and the share s_i = ((R.x*x_i + h)*r_i + c_i), then interpolates s and checks the recovered signer against the address.

JR/JZ and AGPoint are not in `src/`. The model starts from their results: `RunShare` sums the participants' polynomials at a node's x value.

**Field.** Points are scalars over Z_P (generator 1). `PX` gives the x coordinate of k*G as a fixed permutation of the non-zero scalars, with 0 for the point at infinity. ECDSA recovery and verification are computed from it.

| Variable | Code |
|---|---|
| `run`, `faulty` | The peers of the context (`mpc.peers`), and the followers that do not run the code. |
| `phase[n]` | The step n's context is in, `Done`, or the error it returned. |
| `waiting[n]`, `recv[n]` | `BaseStep.waiting` and the Lagrange generator's `message` map, keyed by seed. |
| `sig[n]` | R, R.x (`MpcTxSignResultR`) and s. |
| `net` | Lagrange-step messages in flight. A message for a later step waits in `net` until the receiver enters that step. |
| `dups` | Deliveries the transport duplicated, bounded by `MaxDup`. A duplicate stays in `net` after delivery. |

| Action | Code |
|---|---|
| `RequestTxSign` | `SignMpcTransaction`'s `len(peers) < 2*MPCDegree` gate, then the leader's context and its ARLag broadcast. |
| `AckTxSign` | `acknowledgeTxSignMpc` at a follower. |
| `HandleLag` | `TXSign_Lagrange_Step.HandleMessage`. A value already stored under the sender's seed is refused. |
| `FinishAR` | ARLag `FinishStep` (`MpcSignARResult`), then CalSign `InitStep` and `CreateMessage`. |
| `FinishSign` | CalSign `FinishStep`: the interpolation of s, `SignTransaction` (ErrSignTransaction on a zero r or s), and the signed-from comparison (ErrFailSignRetVerify). |
| `FaultySend` | A faulty follower's ARLag and CalSign messages. The receiver takes any field value for them. A faulty follower may also stay silent. |
| `Timeout` | The round timeout of `BaseStep` (not in `src/`): a node waiting for replies ends with `ErrTimeout`. |

| Run | cfg | What it checks |
|---|---|---|
| `tx_sign` | `MCTxSign.cfg` | `HonestRunSigns`: a run of honest nodes never fails, even when a message is delivered twice. `HonestRunNeverStuck`: in a run of honest nodes where no round times out, some goroutine of the code can always move until every participant is Done. About 1.7M states. |

**Bounds.** The run uses three nodes with MPCDegree 1 over Z_5.

- Init chooses the run: {n1,n2}, {n1,n3} or all three. The two-node runs exercise the gate's refusal.
- Init also chooses at most one faulty follower.
- `MaxDup = 1` lets one message be delivered twice, which reaches `HandleMessage`'s refusal of a second value for a seed.
- Only the three-node run passes the gate, because a*r and s have degree 2*MPCDegree and need three shares.

**Liveness as an invariant.** `HonestRunNeverStuck` says that an honest run is never stuck short of the signature while no round has timed out. It uses `ENABLED` of the code's actions. Every behaviour of the model is finite: phases only advance, and duplicates and faulty sends are bounded. So under fair scheduling of the code's goroutines, never being stuck means every participant eventually reaches Done. The same property written with `WF_vars` and `<>` took TLC far longer than a run may take on this state space, because it evaluates the fairness condition on every transition.

**Mutants.**

- Lowering the gate to `MPCDegree` (`RequestTxSignDegree`) lets a two-node honest run interpolate a wrong value, so `HonestRunSigns` fails.
- Waiting for one reply more than the run has (`WaitPlusOne`) leaves an honest node stuck, so `HonestRunNeverStuck` fails.
- Dropping the seed check in `HandleMessage` (`HandleLagNoDedup`) lets a duplicate count as a share, so the step finishes with two distinct shares and `HonestRunSigns` fails.

## Not modelled

- Cryptographic hardness. Points are scalars, and signatures are a validity flag.
- Message encoding.
- Logging.
- The judge's proof record layout (`saveSlshProof` writes index 5 twice, so `r` is lost). The model keeps the verdict and not the record.
- The lock-account run after admission. `SeedAdmission` models its admission loop and its preset check; the JRSS, address and ack steps it assembles have no constructor under `src/` (`CreateMpcJRSS_Step` exists only in the schnorr copy of the step package, not in the package this file imports), so what they would do cannot be translated.
- In the schnorr signing run: the JR/JZ and AGPoint steps, the Lagrange generator and `SignTransaction` are not in `src/`. `TxSign` models their results. The BTC variant (several signatures) and the recovery id `v` are not modelled.
- `osmconf`. Its getters read a configuration that is never written. `GetXValueByIndex` and `GetLeaderIndex` are stubs returning 0, so the models take x values and the leader as constants. `Difference` and `GetPeers` are called only from commented-out code (`mpc_point_step.go:124-125`), so they never run.
- The validator. `waitKeyFromDB` and `ValidateData` are called only from commented-out code. `AddValidData` is a database write.
- `params/bootnodes.go` and the protocol constant files, which hold no state.
