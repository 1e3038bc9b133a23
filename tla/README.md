# Verification of the SeedHammer firmware

The firmware in this repository drives an engraving machine that cuts wallet
backups into steel plates. This directory holds TLA+ models of the parts of it
that run concurrently or that must survive interruption, the TLC configurations
that check them, and TLAPS proofs about them. Paths below are relative to the
root of the repository.

    tlc -workers 2 -config EngraveJob_runs.cfg MCEngraveJob.tla
    tlapm EngraveJobProofs.tla

`PROJECT.json` lists the components, the runs, the source lines each definition
stands for, a mutation of the code for every property, the hazards and the
findings.

## 1. The system

| Part | State | Operations | Talks to |
|---|---|---|---|
| step ring (`driver/mjolnir2`) | ring of step words, read and write index, words in flight, DMA index, PIO FIFO | `Write`, `Flush`, `Reset`; DMA transfer, PIO pull and stall | PIO interrupt and ticker channels |
| stepper driver (`stepper`), segment window (`bspline.Segment`) | a word being packed, the last knots of the curve | `Knot`, `Flush` | a `Device` |
| safe pointer (`engrave.SafePointer`) | safe point, history of knots, progress | `Knot`, `Progress`, `Resume` | the job |
| engrave job and its screen (`gui/engraver.go`, `EngraveScreen.Engrave`) | status, channels `errs`, `quit`, `progress`, `lock`, knots handed over | `Start`, `Stop`, `Status`, `Stats`, `runEngraving`, release of the resume state | platform engraver, UI loop (`Wakeup`) |
| engraver port (`cmd/controller`) | busy token, mode channel, quit channel, `homed`, `writeErr` | `Engraver`, `Write`, `Flush`, `Close`, `home`, `SwitchMode`, `handleDiag` (interrupt) | step ring, power supply, motor drivers |
| NFC (`gui/nfc_scan.go`, `gui/scan.go`, `nfc/poller`, `driver/st25r3916`) | reading token, active reader, buffer, overflow, one-slot result and cancel channels | `Read`, `Scan`, merge, `Close`, `Interrupt` | scanning screens |
| UI loop (`gui/run_flow.go`, `gui/wipe_guard.go`) | one idle clock, `armed`, screensaver, warning, wakeup time | frame, sleep, warn, wipe, unwind | touch and wakeup channels, the flow, the guard |
| bundle program (`gui/bundle.go`, `gui/bundle_flow.go`) | chunk sets by id, cards, review, plates | offer, done, drop, back, cut | payload, scanner, engrave screen |
| unlock flow (`gui/unlock_*`, `seal`) | region, passphrase, key, plaintext, record copies, guard bracket, plate list | inspect, ask, derive in slices, open, admit, offer, wipe a record, cut from the list | UI loop, engrave job |
| policy composer (`gui/composer_*`) | list of spend paths, wrapper, key path, seats, key sources, preimages held, origins shown | edit a path, seat, release, review, consent, template, cut | codec (`md`), bundle cutting |
| multisig program (`gui/multisig*`, `gui/verify_status.go`, `bundle/verify.go`) | slots held, cards, seed registry, policy, plates cut, verify record | pick, enter seeds, gate, assemble, cut, read back, document | payload, bundle gathering, engrave job |
| systemwide payload (`sysw`, `gui/sysw_*`) | records, `loaded`, `compared` | load, take, group, unload | the wallet programs |
| one-time programmable memory (`driver/otp`, `lockboot_*`) | key slots, redundant flag rows, white-label table, secure-boot flag | choose a slot, write key, flags, strings, enable secure boot | boot ROM |
| power supply (`driver/ap33772s`, `monitorPowerSupply`) | negotiated voltage, one-slot interrupt channel | negotiate, repeat on a new contract | interrupt |
| event router (`gui/event.go`) | events, the pressed tag | `Next`, `Reset` | UI loop, widgets |
| other wallet programs, entry screens | what the operator chose or typed | dialogues | all of the above |
| codecs, keys, layout, drawing, tag protocols, host tools | none, or registers | functions | |

The goroutines of the device: the UI goroutine (loop and flow are coroutines of
it), the worker of an engrave job, boot homing, one scanner per scanning screen,
the power monitor; plus the interrupts of the diagnostics pins, the touch panel,
the reader chip and the PIO, and the DMA channel. They meet in channels of one
slot, in the ring, and in the registers of shared chips.

What is hard here, and what makes each part correct:

- *Step ring*: a CPU copy, a DMA channel that knows no end and a PIO program that
  stops at a zero word race through wrap-arounds, underruns and abandoned
  sessions. Correct: submitted words are executed in order, each once, and no
  stale or half-copied word ever; every call returns.
- *Job and safe points*: stop, failure and resume at any knot. Correct: a resume
  leaves no gap and replays exactly the tail; one worker at a time; nothing of
  the worker's state is touched under it; stops and ends are seen.
- *Port*: interrupts that disconnect motors between any two steps. Correct: a
  spoiled plate is reported, the origin comes from the limits, a free engraver is
  at rest, every client is served.
- *NFC*: cancellation races every wait of a read, screens share one chip.
  Correct: objects arrive whole, none is lost, a stopped scanner leaves the chip.
- *UI loop*: one clock serves screensaver, warning and wipe, and sleeps to a
  wakeup computed earlier. Correct: secrets are wiped in time, never mid-cut,
  never without a warning.
- *Bundle*: chunks of several cards arrive interleaved, twice, or with clashing
  ids. Correct: cards are whole, unique, in order, not lost on the way back.
- *Composer*: every screen can be left backwards, and what was chosen earlier is
  kept where the numbering of the slots allows. Correct: a seat never slides to
  another condition, nothing is dropped without a word, what is consented to is
  what is cut.
- *Multisig*: slots, seeds, accounts and cards are numbered four ways, and Back
  renumbers some of them. Correct: the plates are those of the policy, and
  "verified" is said of these plates only.
- *Unlock*: many ways for an attempt to fail, each with buffers of its own to
  zero. Correct: nothing of a refused payload is offered, and what the program
  undertakes to zero is zero on every way out and before a cut.
- *One-time memory*: bits never go back, power goes between any two rows.
  Correct: what is marked valid is whole, all attempts spend one slot, and a
  device with secure boot has a key it can boot with. The last does not hold
  (section 6), nor does a repetition always complete what was broken off.

## 2. The modules

| Module | Models | Extends or composes |
|---|---|---|
| `StepStream` | what a step buffer promises: words in order, once, none after a session | |
| `StepRing` | `driver/mjolnir2`: `ring.go`, `mjolnir2.go`, the PIO program | implements `StepStream` |
| `DriverProofs` | proofs about `StepRing` and about `OtpFuses` | the two share this module and nothing else |
| `EngraveJob`, `MCEngraveJob` | job, screen, worker, safe pointer, driver, over an abstract ring | |
| `EngraveJobProofs` | proofs about `EngraveJob` | |
| `EngraverPort` | token, power, homing, modes, interrupts, closing | |
| `EngraverPortProofs` | proofs about `EngraverPort` | |
| `NfcReader` | scanner goroutines, poller, chip | |
| `IdleWipe` | UI loop, wipe guard, brackets, derivation, touch panel | |
| `LoopProofs` | proofs about `IdleWipe` and about `NfcReader` | the two share this module and nothing else |
| `BundleGather`, `MCBundleGather` | gathering, review, resumption and cutting of a bundle | |
| `BundleGatherProofs` | proofs about `BundleGather` | |
| `Composer`, `MCComposer` | paths, wrapper, seats, sources, review, consent and plates of a policy | |
| `ComposerProofs` | proofs about `Composer` | |
| `OtpFuses`, `MCOtpFuses` | the writes of "lock-boot" under power loss and refusals | |
| `UnlockSession`, `MCUnlockSession` | the unlock program over `seal` | the derivation in slices and the clock are in `IdleWipe` |
| `UnlockSessionProofs` | proofs about `UnlockSession` | |
| `MultisigVerify` | the read-back of a multisig set and its status | |
| `MultisigSession`, `MCMultisigSession` | building or supplying a policy, cutting it | `MultisigVerify`, as the loop after the cut |
| `MultisigProofs` | proofs about `MultisigSession` and `MultisigVerify` | |

### StepRing

`buf`, `readIdx`, `writeIdx` are the fields of `ring`; `status`, `inFlight` those
of `Device`; `dma`, `fifo`, `pio` the hardware. A word is the number of its
submission, so that stale words can be told from new ones; 0 is the halting
zero. `ring.Write` is split where the DMA channel can see a difference: advance,
write the halting zero, copy every word but the first (in any order), store the
first. `Pull` is one PIO pull with the refill that the DMA channel does at once
(a word lasts 36 PIO cycles or more). Padding of the last word
(`stepper.Driver.Flush`) makes the PIO stall at the end of that word. Resetting
(`Reset`) also stands for the abort of the DMA channels, which is taken to zero
their transfer count, and puts `readIdx` back to 0 as `ring.Reset` does.

### EngraveJob

`ui`, `poll` are the screen's loop and the place inside `engraveJob.Status`,
whose two selects are two steps; `state`, `completed`, `errs`, `quit`, `verdict`,
`progress`, `lock`, `nknots` are the fields and channels of `engraveJob`;
`safePoint`, `history`, `retired`, `residual` those of `engrave.SafePointer`;
`worker` is the place in `runEngraving`. The plan is a sequence of knots with
durations in ticks, some of which end a clamped triple (safe knots). The driver
is modelled by what it holds back: two knots in the segment window, the ticks of
a word that is not full, the ticks of a `Write` not yet in the ring. The device
is a queue of ticks with a count of those completed since the last look. Two
things are completed without being cut: ticks executed on the pins that a blocked
axis disconnects, and the word of the halting zero that an underrun makes the DMA
index pass (`Stall`); `Write` credits them like any other, since the code looks
for the underrun only when it has to wait. `surplus` counts them. `cut`,
`reported`, `surplus`, `starts` and `released` are history variables. The knots' positions, the curve
and the timing of the planner are data.

### EngraverPort

One session at a time holds the busy token; `pc` is the place in
`homingEngraver` and `home`. `Interrupt(a)` is `handleDiag` for an axis or the
power fault, enabled between any two steps while the interrupts are on; it takes
its mode from the one-slot channel first, as the code does. A stepper stalls
only while it is stepped, and a diagnostics pin does not bounce: these are the
two assumptions about the hardware. Words are counted, not told apart.

### NfcReader

`screen`, `ui` are the UI goroutine and its stop function; `pc`, `buf`,
`overflow`, `idle`, `scan` the scanner goroutine of each screen; `token`, `src`
its poller; `cancel` and the waits the chip. A read goes through `detect`,
`park` (which has no timeout), `field`, the selections and the data; each wait
may take the cancellation, may end in its timeout, or fail when `Failures` is
TRUE. A record is a number of chunks, and what a parser makes of it is one of:
an object, progress, an unknown format.

### IdleWipe

Times are relative: `age` is the time on the idle clock and `due` the time to
the wakeup, in a unit of which `idleTimeout` and `wipeWarningDelay` are the
constants `Idle` and `Warning`. The flow is every program at once: between
frames it may open and close a secret bracket, register, start, stop and forget
a job, and derive a key in slices. The loop is `runWithFlow` with its sleep and
its verdicts; the touch panel moves as it likes, including a contact that drifts
for ever. `AppendEvents` looks at a touch before a wakeup signal and at that
before the timer. Between two frames the flow works for at most one unit.

### BundleGather

`sets` are `mkSets` and `mdSets` in one map, keyed by kind and chunk set id;
`cards` is `bundleGatherer.cards`; `feed` are strings that `bundleGatherFlowResume`
offers before it scans; `at` and `steel` are the loop of `bundleEngrave`. Two
cards may carry the same key: the id has twenty bits and the host lets its user
stamp it. The gates `mk.Decode` and `md.DecodeChunks` are modelled by their
verdict: all chunks of one card, and that card sound (hash collisions are left
out). The number of strings on a plate is a constant where the code tries the
layout. An engrave screen that is left without completing shows the same plate
again, which changes nothing and is no action.

### Composer

`pc` is the screen, `list` the field of `composerState`. Of a path only what
numbers the slots is kept: how many keys, whether it has a lock, its digest; the
codec's verdict (`Composes`) is `md.ValidatePathList` on that form. A path gets an
id of its own when it is made, which the code has not, and a seat remembers the
id and position it was chosen for (`serves`): without it the model could not say
that a seat has slid to another path. `used` are the `used` flags of the sources,
`assigned` the seats, `shown` and `seen` `composerOriginMemory`. An edit with its
guard, the renumbering and the dropping of seats is one action. Thresholds, the
order of keys and the values of locks change no number and are left out.

### OtpFuses

A row is the set of its bits that are 1, so that a write is a union. `plan` is
the sequence of row writes of the step of `LockBoot` that runs: the strings, the
key with its three flag rows, secure boot with its copies. `WriteRow` does the
next; `Refused` is an error of the boot ROM, `PowerLoss` may come before any row,
and `Enter` may be called again at any time. `AddBootKey` is `BestFit`: the valid
slot that holds the key, else the first slot the key still fits in that has most
of it. Offsets and lengths of the table follow the code, with the width bit of
UTF-16. A row is never torn inside. `Valid` reads a flag as the firmware does, from
any copy; `BootRomTakes` as the boot ROM does, from two of three. `torn`, a history
variable, says that an attempt was broken off while a slot was valid to the one
and not to the other (`Split`), or that the device came so.

### UnlockSession

`live` says which of the passphrase words, the key, the plaintext, the parsed
words and the encrypted blob still have their bytes; `public` and `secret` are
the record copies of the payload, each with whether it has been zeroed; `stray`
holds the sections of which a copy that nothing refers to any more was left
unzeroed, as the public one is when its cards do not decode. `Admission` and
`Opening` are `AdmitSection` and `UnlockWithKey` with their error paths, in the
order of the code; `Expire` is the wipe of the UI loop, which makes every screen
answer Back. Deferred clears are part of the action that returns.

### MultisigVerify and MultisigSession

A key is the words, passphrase and path it is derived from, and a plate its key,
path, fingerprint and the policy it is bound to. `multisigVerifyFlow` is one
action per screen, and `Finish` the comparison at the end of the loop over seeds:
every leg claims the first plate left with its key (`verifyClaimPlate`) and both
are compared as `bundle.Verify` does. The operator may present any plates: those
cut, the same keys bound to another policy or stamped with another path, other
people's. `proof` is a history variable: what the last pass rests on.

`MultisigSession` runs the same actions after the cut. `reg` is `seedRegistry`,
`ids` the seed numbers `gatherSlotSeeds` collects and cuts short when the operator
steps back, `cards` the cosigner cards in slot order; `SeedOf`, `AccountOfSlot`
and `CardOf` are the numberings of `buildSlotSources`. `answered`, a history
variable, is the seed last given for each slot.

## 3. What is checked

Every property has a mutation of the code that breaks it (`PROJECT.json`,
"mutants"); the mutated operators stand before the originals in the modules.

| Run | Instance | Shows |
|---|---|---|
| `StepRing_stream` | ring of 5, FIFO of 2, 9 words in batches of at most 3 | refinement of `StepStream` (`ImplementsStream`), `ReportsAreHonest`, `CallsReturn` |
| `EngraveJob_runs` | two strokes (6 knots), 2 runs, words of 2 ticks, every fault | `ResumeIsExact`, `WorkerIsAlone`, `JobEnds` |
| `EngraverPort_sessions` | boot homing and a QA session, every fault, ring of 2, homing of 4 words | `OriginFromLimits`, `PlateOnPins`, `RestWhenFree`, `Served` |
| `NfcReader_safety` | two screens, records of 1 and 4 chunks, buffer of 3, failures | `DeliveredWhole`, `ScannerKeepsPace`, `NoTouchAfterClose` |
| `IdleWipe_window` | `Idle` = 3, `Warning` = 2, derivation of 4 slices | `WipedInTime`, `WarnedBeforeWipe`, `NoWipeMidCut`, `PanelIsTrue`, `DerivationEnds` |
| `BundleGather_bundle` | 7 cards, 3 payloads, 2 strings a plate | `GatheredWhole`, `ResumeKeeps`, `PayloadOrder`, `SteelIsWhole` |
| `Composer_policy` | 3 presets, up to 2 paths of 2 keys and 3 slots, 3 edits | `SeatingHolds`, `ConsentedIsSound`, `NoSilentDiscard`, `OriginsAreFlagged` |
| `OtpFuses_writes` | 3 slots, keys of 2 rows, 2 strings, 512 memories | `ValidIsWhole`, `OneSlotIsSpent`, `LockedBootsUnlessTorn` |
| `UnlockSession_routes` | every region of at most 1 public and 3 encrypted records | `BuffersConfined`, `OnlyWholeOffered`, `UnwindEnds` |
| `MultisigSession_steel` | 2 slots built, 2 or 3 supplied, 2 seeds' words, 1 passphrase, 5 payloads | `SteelIsPolicy`, `VerifiedIsSteel`, `RemedyReoffered` |

and, expected to find a violation (section 6): `EngraveJob_done` (`DoneIsComplete`)
and `OtpFuses_locked` (`LockedBoots`), on the same instances. Several of these
properties join two or three that are told apart in the modules: a conjunction
names its parts there.

### Bounds, and why they suffice

- *StepRing*: `RingSize` 5 leaves three usable slots beside the FIFO's two, so
  that chunks are cut at the reader and at the end of the buffer; 9 words go
  almost twice round and span sessions. `MaxWords` and `MaxBatch` bound the
  submissions only. The proofs hold for any of them.
- *EngraveJob*: a run can be interrupted at each knot, and the second run in the
  catch-up; two strokes are the least with a safe point that is neither the start
  nor the end. A ring of 2 ticks makes the device lag behind the knots, and words
  of 2 ticks leave one waiting in the driver. `MaxStarts` bounds the runs: a
  catch-up of a catch-up would take three. The proofs hold for any plan and any
  number of runs.
- *EngraverPort*: two clients contend for the token; a ring shorter than the
  homing motion makes `home` write and poll more than once. There is no bound on
  faults. The proofs hold for any.
- *NfcReader*: one length below and one above the buffer; two screens are the
  least for an abandoned stop to meet a successor. `MaxRecords` bounds the
  records a screen starts. The proofs hold for any.
- *IdleWipe*: the clocks stop at the last value that a comparison tells apart.
  `Slices` exceeds `Idle`, so that a derivation outlasts the timeout. The proofs
  remove these bounds.
- *BundleGather*: three key cards share an id, one of them with another number
  of chunks; a descriptor has the same id in its own space; one descriptor is
  never sound; one card is a single string. The payloads hold interleaved cards,
  a duplicate and half a card. The proofs hold for any cards.
- *Composer*: two paths of up to two keys are the least in which numbering can
  move and a path can lose its only key; three edits take a key path away and
  bring it back. The payload's card has the key of the seed, or its origin, so
  that both kinds of clash happen. `MaxEdits` and `MaxTyped` bound the session;
  the proofs hold for any.
- *OtpFuses*: two rows are the least a key can be torn in, three slots let a
  revoked, a foreign and a blank one stand side by side, two strings let the
  second be placed behind the first or behind one the device came with. There is
  no bound on power losses and repetitions.
- *UnlockSession*: `MaxRecords` = 3 stands for the cap of both sections together
  and is passed by the two sections only together, and by one alone. The proofs hold
  for any regions and cap.
- *MultisigSession*: two slots are enough for two seeds, one seed twice, one of
  each and a step back; the supplied policies have one key in two slots.
  `MaxSeeds` bounds steps back, `MaxForeign` the foreign plates presented at once
  (each alone must already be refused). The proofs hold for any of them.

Deadlock is checked where the system never stops: `StepRing`, `IdleWipe`,
`OtpFuses` and `UnlockSession`, whose program can always be entered again. A job
that is left, a port whose clients have all been served, a screen that is closed,
a bundle or policy that is cut and a document that is read are ends, so the other
configurations say `CHECK_DEADLOCK FALSE`.

### Fairness

- `StepRing`: the goroutine inside a call goes on, its ticker ticks, the PIO
  runs. Nobody has to call.
- `EngraveJob`: the worker is scheduled, the device executes, the screen draws a
  frame again and again (`SF` on `Draw`, since other steps of the screen may come
  between) and returns a borrowed engraver. The close of the engraver is strongly
  fair: the screen borrows and returns the engraver again and again, and the
  channel serves a waiting receiver in turn. Nothing is assumed of the user.
- `EngraverPort`: sessions and the device run; a user closes what he opened
  (`defer Close`); receivers of the token are queued (`SF` on `Acquire`).
- `IdleWipe`: the UI goroutine runs, time passes, a worker that has sent its
  result calls `Wakeup`. `SF` on `Timer`: touches do not come so fast that a timer
  that has fired is never chosen. Nothing is assumed of operator or flow, but that
  a frame that was begun is handed over and a derivation that was begun goes on.

- `UnlockSession`: once `ctx.Done` is set the screens answer without the operator,
  so the flow goes on (`WF` of its steps while `done`). Nothing is assumed before.

`NfcReader`, `BundleGather`, `Composer`, `OtpFuses` and the multisig modules state
safety only: an operator, a tag or a provisioning host may always stay away.

## 4. What is proved

Every safety invariant and every action property that a passing run checks is
also a theorem, and so is the refinement of `StepStream`: for every value of the
constants that the named assumptions of the modules allow (`RingAssumption`,
`PlanAssumption`, `PortAssumption`, `ReaderAssumption`, `ClockAssumption`,
`CardAssumption`, `ComposerAssumption`, `OtpAssumption`, `LabelAssumption`,
`RegionAssumption`, `StrangerAssumption`, `BuildAssumption`). One theorem has a
hypothesis of its own, named below. Only liveness is left to TLC.

- `EngraveJobProofs`: `WorkerStaysAlone`, `JobTypes`, `ResumeStaysExact`, for every
  plan, ring, word, number of runs and every set of faults. Two
  inductive invariants. `ProtocolInv` says what the channels tell: the errs channel
  is there exactly while the state is running or stopping; there is never both a
  worker and a result of one; the lock channel holds the engraver only between the
  worker's open and close; the screen borrows it within one frame. That `Start`
  finds no worker follows only because a terminal state means that the errs channel
  has been read. `JobInv` keeps the books of the engine. `HistoryInv` and
  `CatchupInv` say that the history is the knots after the safe point, and in a
  catch-up what is left of it (`PointerTail`). `Placement` gives every tick in the
  window, the words and the ring its place in the plan, so that the next tick
  executed is the next of the plan or one replayed. What may be missing is counted
  rather than excluded: the ticks accounted for run ahead of those executed by a
  lead, those executed may have left a gap on the plate, and lead and gap together
  never exceed the surplus (`Covered` while a run feeds the driver, `Backed` between
  runs). A stall adds a word to the lead and to the surplus, an execution on
  disconnected pins a tick to the gap and to the surplus. Without the place of every
  tick in the pipeline this is not inductive. Where nothing is blocked and nothing
  underruns the surplus is zero, and the theorem says that no tick is missing.
- `EngraverPortProofs`: `PortAlwaysTyped`, `FreeAlwaysAtRest`,
  `OriginAlwaysFromLimits`, `PlateAlwaysOnPins`, for any clients, any homing motion,
  any ring and every set of faults. `PhaseInv` says what the place in the session
  leaves in the device and the channels; `RegimeInv` names the two regimes the
  interrupt handler can be in once it has taken the waiting mode: it homes, and the
  axes it has seen blocked are at their limits (`Homing`), or it does not and never
  says "homed" (`Away`, `Engaged`). `LimitInv` is stronger than the property: also
  a "homed" left in the quit channel by a homing that failed, or sent twice, is
  true when it is read, because nothing moves the axes away while it is there.
  `TellInv` follows a spoiled plate to its report: a message in the channel until a
  poll takes it, and that poll fails (`Told`).
- `DriverProofs`, the ring: `RingTypes`, `ReportsStayHonest` and
  `RingImplementsStream`, for every size of ring and FIFO and any batches. `RingInv`
  has the copy under way (`Copy`), what the hardware has before it (`Hw`) and the
  counts (`Books`). While the PIO runs, some first words of the FIFO are the next
  ones submitted and a zero follows them; only as long as all of the FIFO is right
  need the ring be (`Right`, `Live`): once the DMA has run past the halting zero the
  ring may hold anything, and the PIO is certain to stall before it sees it. `Live`
  looks through the store that `ring.Write` makes last: the words behind the old
  zero are there already and do not count. The refinement is by cases of the steps: a
  `Pull` takes a word of the stream or stalls, `StoreFirst` submits, a reset begins
  a session, all others stutter.
- `DriverProofs`, the one-time memory: `MarkedAlwaysWhole`, `OneSlotAlways`,
  `UntornLockedBoots` and `ValidAlwaysWhole`, for any number of slots, rows and
  copies, any strings and any memory a device may come with. `OtpInv` describes the
  plan under way (`PlanFits`), how far it has come (`Filling`), and that of the
  slots that came blank or partly filled only one has been written (`OneSlot`).
  `UntornFits` adds that, as long as nothing was broken off between the first and
  the second copy of a flag, a slot the firmware and the boot ROM disagree about is
  the one whose flag is being written, and that a key is only written before secure
  boot.
  `LabelInv` does the same for the strings: a flagged label is held by its entry and
  its rows (`FlagsTell`), the plan writes behind all of them (`Below`) from an offset
  that stays the one chosen when it began, although the table moves under it
  (`LabelFilling`). That an entry says what was written to it is `DigitsBack`, digit
  by digit. `ValidAlwaysWhole` has the hypothesis `[]OffsetFits`: offsets stay below
  256, which `WriteWhiteLabelString` does not check. In the instance of the run it is
  met because `Space` is smaller.
- `LoopProofs`, the UI loop: `WipeComesInTime`, `NeverMidCut`, `NeverUnwarned`,
  `PanelStaysTrue`, for every timeout, warning delay and derivation. `WindowInv`
  relates the four clocks: before the timeout, age plus time to the wakeup stays
  below `Idle` (`FlowInTime`, `LoopInTime`); after it, an armed loop wakes before the
  wipe and has shown the warning since the timeout (`WarnsInTime`); and what the
  loop does not know of yet, an unseen touch or an unseen arm edge, is at most one
  unit old and about to be seen (`TouchSeen`, `EdgeSeen`), so the age of the clock and
  the true quiet time differ by at most one (`AgeIsQuiet`). Without the last two the
  bound on the quiet time says nothing about the clock and is not inductive.
  `PanelInv`: nothing secret is left to draw outside a bracket, and a loop that
  waits in an active session has the flow's own frame on the panel.
- `LoopProofs`, the scanner: `ReaderTypes`, `ObjectsStayWhole`, `ScannerStaysInPace`,
  `ClosedStaysOff`, for any number of screens, any records and any failures of the
  chip. `ReaderInv` ties each screen's token to the place of its goroutine
  (`TokenInv`), the chunks in the buffer to the record they are the beginning of
  (`ChunkInv`, `BufInv`), and an object owed to the screen to the result under way or
  the slot (`ResultInv`); who owes a rest is on the way to it (`RestInv`). That it holds for
  any number of screens uses that a goroutine moves its own screen's variables only,
  however many abandoned ones still run (`OneScreen`).
- `BundleGatherProofs`: `BundleIsWhole`, `BundleTypes`, `SteelStaysWhole`,
  `ResumeKeepsCards` and the action property `RecordsKeepOrder`, for any cards, any
  keys they carry, any payload and any order of scanning. `GathererInv` adds to
  the two parts of `GatheredWhole` that a set holds chunks of its own key below its
  total (`SetsOK`) and the converse of `CompleteIsAdded`: the set of an added card is
  complete (`AddedIsComplete`). The converse is what makes cards unique: a card
  comes only of a set that was not complete. The lemma `CompleteDomain` counts:
  as many chunks as the total, all below the total, are all chunks. `CutInv` says
  that the plates so far are the beginning of the strings of the cards. `ReplayInv`
  gives the place in the kept cards up to which a resumption has come: the cards
  before it are there again, the one at it has its first strings in its set.
  `OrderInv` does this for a payload: what is left to offer is its tail in the
  grouped order, the cards so far began at a record up to the present one, in
  order, and the sound single-string cards before it are all there. The lemmas
  about flattened sequences (`TotalsDef`, `PlaceAfter`, `EmptyBetween`) say where the
  strings of the n-th group stand.
- `ComposerProofs`: `SeatingAlwaysHolds`, `ConsentedAlwaysSound`, `NeverSilent`,
  `AlwaysFlagged`, for any wrappers, presets, payloads, limits and number of
  edits. `SeatsInv` adds to seats that fit and sources taken exactly while seated
  that the list has been valid whenever the program is past its editor
  (`PastIsValid`) and that the slot asked for next is free (`AskedIsFree`).
  `SoundInv` follows each passage by what the later screens rely on: the kind of
  key path (`KindFits`), keys that differ (`KeysDiffer`) and preimage plates of
  digests still in the list (`PlatesFit`). `NeverSilent` is the reason that asking
  the codec before an edit is enough: with the field cleared and with it set are
  the only two forms an edit can leave.
- `UnlockSessionProofs`: `OnlyWholeAlways`, `BuffersAlwaysConfined`, for any regions
  and any cap. `RouteInv` carries the verdict of the inspection to the opening and
  that of the opening to every screen that offers a record; `LiveInv` lists what
  each screen's buffers may still hold, and `SecretInv` says that every secret
  record still there is one whose turn has not passed. That an admitted section
  has no refused record rests on `LeastElement`: the first refused
  one would have given the error.
- `MultisigProofs`: `SteelAlwaysPolicy`, `VerifiedAlwaysSteel`,
  `RemedyAlwaysReoffered`, for any number of slots, seeds, cards and attempts.
  While building, `AnsweredFits` ties the seed last given for a slot to the
  registry through the slot's rank among those held (`RankIsNumbering`: ranks
  number the held slots without gap or repetition) and `RegFits` says that Back
  never leaves a number without its seed. While reading back, `SteelFits` says
  whose the plates are, and `LegsFit` that every leg is one of them, each slot once.
  The last step counts: as many legs as slots cover all slots (`LegsCover`), and as
  many different plates as slots, each claimed by a leg, are all the plates
  (`AllShown`). What `Claims` computes is not used, only that nothing is left over.

Two modules share a file where they share nothing else, and then their
specifications have names of their own: `RingSpec` (`StepRing`), `ReaderSpec`
(`NfcReader`).

Only model-checked: liveness (`CallsReturn`, `JobEnds`, `Served`, `DerivationEnds`,
`UnwindEnds`), which needs fairness and `ENABLED` and is out of the proof system's
reach here. Induction over data is avoided rather than used: sums and
concatenations are characterised by choice (`Totals`), and what holds up to a
number is proved from the least one for which it would not (`UpToN`).

## 5. What is not modelled

The components list in `PROJECT.json` gives the reason for each. Codecs, key
derivation and layout are pure functions over strings and curves, with test
vectors. The other wallet programs and the entry screens are sequential dialogues
over the parts above. Drivers of displays, tags and motors are register
protocols; the models let them return anything they can. Of the modelled parts:

- *Composer*: thresholds, values of locks, the flag of sorted keys, labels, the
  dialogues of the hash lock beyond the digest and whether its preimage is held.
- *OtpFuses*: a row torn inside, the row of the address when it is foreign; the
  code compares a slot with the key byte by byte, the model row by row.
- *UnlockSession*: the copies of a seed that the program does not zero. Its source
  lists them as live (`gui/unlock_session.go:255`, `seal/session.go:33`): the
  sentence inside `bip39.MnemonicSeed`, the bytes behind `seedqr.QR` and the bitmap
  of the code, the words `engraveSeed` takes, the strings `codex32.String` and
  `backup.SeedString`, and for the length of the cut the plate's spline, which is
  the seed as geometry. `BuffersConfined` says nothing of them: at the time of a
  cut the seed is in memory. Left out too: labels, the layout of a plate, the
  cipher and the header.
- *Multisig*: the script type, thresholds, the stages inside the picker, the list
  of seed plates without repetitions, cards scanned at the bundle's gather, the
  unwinding on `ctx.Done` and the wiping of seeds and registry, the build for the
  other board, which refuses the read-back.

## 6. Findings

With a run that shows it:

1. `EngraveJob_done` (`gui/engraver.go:211`): when a run fails or is stopped after
   the last knot was handed over, the resumed run has no knot left to skip to, so
   its catch-up is never called and the job is reported as done.
2. `OtpFuses_locked` (`driver/otp/otp.go:139`): `AddBootKey` takes a key for valid
   ("Key exists and is marked valid.") when one of the three copies of
   `BOOT_FLAGS1` has its flag. The boot ROM takes the majority of the copies
   (`docs/custom-firmware.md:273`). When an attempt is broken off behind the first
   copy, by a power loss or an error, the command given again returns there, leaves
   the other copies blank and goes on to `EnableSecureBoot`: secure boot is on and
   no key is valid. `isSecureBootEnabled`, which reads the same way, then reports
   that all is well. `LockedBootsUnlessTorn` holds: this is the only way there.
   `docs/custom-firmware.md:351` repeats an interrupted flag with `picotool` until
   all three copies agree; the firmware's own command never does.

Seen while modelling, without a run of their own:

- `driver/mjolnir2/mjolnir2.go:302`: `Flush` reports an underrun although every
  word was executed, when at its last look the ring was full to within the depth
  of the FIFO: the DMA index has run past the halting zero, a whole lap looks like
  none, and words stay "in flight". Nor can it tell the halting zero from one lost
  word: an underrun that loses exactly one word is reported as success
  (`FlushLosesAtMostOne` is the bound that holds).
- `driver/mjolnir2/mjolnir2.go:240`: a `Write` whose last words fit returns
  without a look at the underrun that may have come before it, and `advanceDMA`
  (268) has counted the halting zero the device took as a completed word. Up to a
  word of ticks is credited that was never cut, some of which may not even have
  left the driver: the safe point can pass them, and a resume starts behind them.
- `driver/mjolnir2/mjolnir2.go:287`: ticks executed on pins that `handleDiag` has
  disconnected are counted as completed, so the safe point can pass knots that
  were never cut, and a resume starts after them. Of both, `ResumeIsExact` bounds
  the damage by `surplus`.
- `gui/gui.go:3550` says a resumed job cuts catch-up motion the planned duration
  never counted, so the count "can legitimately run PAST duration".
  `splineResumer.Knot` (`gui/engraver.go:278`) takes the planned ticks of all it
  replays, the approach line included, off the progress, so
  `CompletedWithinPlan` holds over resumes: only the surplus of an underrun or a
  blocked axis can take the count past the plan. The clamp does no harm.
- `nfc/poller/poller.go:146`: the cancellation can be taken by the selection of a
  tag, whose error `poll` ignores; the read parks again, and `Close` runs into its
  timeout although the chip is healthy (`poller.go:96` says it is never reached).
- `gui/scan.go:35`: the overflow flag is cleared only on a path that requires it
  to be clear, so after one oversized content every later record of that screen
  fails.
- `Poller.Close` does not give the reading token back; a scanner goroutine that
  has passed its check of the closer then waits for it for ever and the join in
  `startScanner` runs into its timeout.
- After an abandoned stop two pollers may use the chip at once, and a cancellation
  that came after the last wait of a read is taken by the first of the next
  screen, which reports a failed scan.
- `scanOverflow` is declared as a status and never set.
- `gui/wipe_guard.go:45` says that clearing the guard's job "disarms anyway";
  `armed` with no job returns true.
- A tap that is over before its interrupt is served equals the last reading and
  is dropped by `processTouch`: the idle clock does not see it.
- Of two sound key cards with the same chunk set id and the same number of
  chunks, the second is answered "Already captured" and cannot be added; with
  another number of chunks it reaches the branch of `offerChunkedMK1` that says
  "should not occur for a csid-keyed sub".
- A label whose entry row is written and whose flags are not is counted as taken
  by the next `WriteWhiteLabelString`, which then computes another offset for the
  same entry; the boot ROM refuses bits that would have to go back, and `LockBoot`
  cannot finish. `rowOffset<<8|len` has no check that the offset fits its byte;
  `ValidAlwaysWhole` needs it as a hypothesis.
- `seal/record.go:395`: when the cards of the public section cannot be grouped or
  decoded, `AdmitSection` returns without the `wipe(out)` of its other error paths.
  The copies made so far are held by nobody and keep their bytes. They are
  cleartext, and a check before it admits only cards; but a card that does not
  decode is what the section above it (374) suspects of carrying seed entropy.
  `BuffersConfined` asks nothing of public copies for this reason.
- `gui/composer_sources.go:308` says an account is the ordinal of the slot among
  those of its seed; the code at 320 counts those seated so far, so the account
  depends on the order of seating.
- The second stub a consent draws when keys are added is not remembered by the
  composer; `composerHoldHashlockMaterial` overwrites an entry without wiping it;
  the resizing of the assignments in `composerSizeAssignments` and in the seat
  flow never has anything to do (`SeatsFit` proves it).
- `gui/multisig_build_slots.go:261` says "The registry holds one entry per HELD
  SLOT". When the operator steps back at the second slot's seed,
  `gatherSlotSeeds` (`gui/multisig_build.go:635`) asks for the first again and cuts
  only the list of numbers short: the registry keeps the abandoned seed, and
  `usesPassphrase` and `passphraseFacts`, which range over the registry, tell the
  document of a seed and a passphrase the wallet does not use. The plates are
  right (`SteelIsPolicy`).
- `gui/sysw_session.go` gives the payload's session the lifetime of the process,
  without timer or idle wipe; `runWithFlow` ends the context that holds it when
  the idle wipe comes, and the next one begins without it.
- `verifyMultisigLegs` looks for plates no leg claims after it has compared the
  counts and claimed one for each: the second check has nothing to find.

## 7. Plan

Built so far, in this order: step ring, engrave job, port, NFC, UI loop, bundle,
composer, one-time memory, unlock program, multisig program; proofs of every
safety property checked.
What would come next:

1. `PayloadSession` (`sysw`, `gui/sysw_*`): load, compare, take, unload, load
   again. Properties: nothing is taken from an uncompared payload; no program
   keeps a record of an unloaded one except what it has taken.
2. `SupplyMonitor` (`monitorPowerSupply`), `EventRouter` (`gui/event.go`), and the
   peeling decoder of `bc/fountain` as a pure module against a reference.
3. Composition: `StepRing` under `EngraverPort` (the port's `ring` and `status` as
   a refinement of it), and the job's device as an abstraction of the port.

Proofs planned: `OffsetFits` from a bound on how often a string is begun again,
which would remove the hypothesis of `ValidAlwaysWhole` for the strings of a
device that came blank; `EngraverPort`'s device as a refinement of `StepRing`, once
both speak of the same words.
