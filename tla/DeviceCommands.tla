---------------------------- MODULE DeviceCommands ----------------------------
(***************************************************************************)
(* Paired devices and the signed commands sent to them: the registry of    *)
(* src/meemee/devices.py on the host, and on the device verify_command     *)
(* with its replay guard (src/meemee/device_protocol.py), driven by the    *)
(* simulator of src/meemee/device_simulator.py.  An envelope that was      *)
(* issued may reach the device late, repeatedly and out of order.  Time    *)
(* runs in half seconds, because verify_command compares whole seconds     *)
(* while the guard keeps fractions.                                        *)
(***************************************************************************)
EXTENDS Integers, FiniteSets, FiniteSetsExt

CONSTANTS Pairings,      \* pairing ids, one code each
          DeviceIds, Capabilities, Commands,
          Tolerance,     \* seconds an envelope is accepted for, either way
          GuardTtl,      \* the guard's own ttl in seconds
          Skews,         \* seconds the host's clock runs ahead of the device's
          MaxTime,       \* bound on the clock, in half seconds
          MaxRestarts,   \* bound on restarts of the device
          NoDevice       \* no row

ASSUME DeviceAssumption ==
    /\ Tolerance \in Nat /\ GuardTtl \in Nat /\ MaxTime \in Nat /\ MaxRestarts \in Nat
    /\ Skews \subseteq Int

VARIABLES pairing,       \* device_pairings: "none", "open", "used" or "expired"
          device,        \* devices: the pairing each came from, its manifest, revoked_at
          command,       \* device_commands: target, capability, issued_at, status
          seenNonces,    \* the replay guard's nonces (one per command) and their expiry
          replayGuard,   \* "memory" (ReplayGuard) or "sqlite" (SQLiteReplayGuard)
          time, restarts,
          runs           \* how often the device ran each command

deviceVars == <<pairing, device, command, seenNonces, replayGuard, time, restarts, runs>>

Unpaired == [from |-> NoDevice, manifest |-> {}, revoked |-> FALSE]
Unissued == [to |-> NoDevice, capability |-> NoDevice, issued |-> 0, status |-> "none"]

DevicesInit ==
    /\ pairing = [p \in Pairings |-> "none"]
    /\ device = [d \in DeviceIds |-> Unpaired]
    /\ command = [c \in Commands |-> Unissued]
    /\ seenNonces = [c \in Commands |-> 0]
    /\ replayGuard \in {"memory", "sqlite"}
    /\ time = 0 /\ restarts = 0
    /\ runs = [c \in Commands |-> 0]

CreatePairing(p) ==
    /\ pairing[p] = "none"
    /\ pairing' = [pairing EXCEPT ![p] = "open"]
    /\ UNCHANGED <<device, command, seenNonces, replayGuard, time, restarts, runs>>

PairingExpires(p) ==
    /\ pairing[p] = "open"
    /\ pairing' = [pairing EXCEPT ![p] = "expired"]
    /\ UNCHANGED <<device, command, seenNonces, replayGuard, time, restarts, runs>>

\* pair(): a second use of the code, and a device_id that has a row already
\* (revoked or not: the primary key), roll back.
Pair(p, d, capabilities) ==
    /\ pairing[p] = "open"
    /\ device[d] = Unpaired
    /\ pairing' = [pairing EXCEPT ![p] = "used"]
    /\ device' = [device EXCEPT ![d] = [Unpaired EXCEPT !.from = p, !.manifest = capabilities]]
    /\ UNCHANGED <<command, seenNonces, replayGuard, time, restarts, runs>>

ActiveDevice(d) == device[d] # Unpaired /\ ~device[d].revoked

UpdateManifest(d, capabilities) ==
    /\ ActiveDevice(d)
    /\ device' = [device EXCEPT ![d].manifest = capabilities]
    /\ UNCHANGED <<pairing, command, seenNonces, replayGuard, time, restarts, runs>>

RevokeDevice(d) ==
    /\ ActiveDevice(d)
    /\ device' = [device EXCEPT ![d].revoked = TRUE]
    /\ UNCHANGED <<pairing, command, seenNonces, replayGuard, time, restarts, runs>>

\* issue(): make_command stamps the envelope with the host's clock.
IssueCommand(c, d, capability, skew) ==
    /\ command[c] = Unissued
    /\ ActiveDevice(d) /\ capability \in device[d].manifest
    /\ command' = [command EXCEPT ![c] =
           [to |-> d, capability |-> capability, issued |-> (time \div 2) + skew, status |-> "issued"]]
    /\ UNCHANGED <<pairing, device, seenNonces, replayGuard, time, restarts, runs>>

\* complete(): whoever reports first sets the outcome.
CompleteCommand(c, outcome) ==
    /\ command[c].status = "issued"
    /\ command' = [command EXCEPT ![c].status = outcome]
    /\ UNCHANGED <<pairing, device, seenNonces, replayGuard, time, restarts, runs>>

Fresh(c) ==
    LET age == (time \div 2) - command[c].issued
    IN  age <= Tolerance /\ -age <= Tolerance

\* Mutant: the nonce is kept through the last accepted second, exclusive.
RetainedShort(c) == Max({GuardTtl, command[c].issued + Tolerance - (time \div 2)})
\* retain_seconds against the replay guard's ttl.
Retained(c) == Max({GuardTtl, command[c].issued + Tolerance - (time \div 2) + 1})

\* The nonces claim() still remembers: expired ones go first.
KeptNonces == [n \in Commands |-> IF seenNonces[n] > time THEN seenNonces[n] ELSE 0]

\* INSERT OR IGNORE, or its like in memory: a known nonce is refused.
ClaimNonce(c) ==
    /\ KeptNonces[c] = 0
    /\ seenNonces' = [KeptNonces EXCEPT ![c] = time + 2 * Retained(c)]

\* execute() on an envelope that arrives now: the device knows its secret and
\* its handlers, and nothing of the registry.
ExecuteCommand(c) ==
    /\ command[c].status # "none"
    /\ Fresh(c)
    /\ ClaimNonce(c)
    /\ runs' = [runs EXCEPT ![c] = @ + 1]
    /\ UNCHANGED <<pairing, device, command, replayGuard, time, restarts>>

\* The device restarts: a replay guard in memory forgets.
RestartDevice ==
    /\ restarts < MaxRestarts
    /\ restarts' = restarts + 1
    /\ seenNonces' = IF replayGuard = "memory" THEN [c \in Commands |-> 0] ELSE seenNonces
    /\ UNCHANGED <<pairing, device, command, replayGuard, time, runs>>

DeviceTick ==
    /\ time < MaxTime
    /\ time' = time + 1
    /\ UNCHANGED <<pairing, device, command, seenNonces, replayGuard, restarts, runs>>

DevicesNext ==
    \/ \E p \in Pairings :
          \/ CreatePairing(p) \/ PairingExpires(p)
          \/ \E d \in DeviceIds, caps \in (SUBSET Capabilities) \ {{}} : Pair(p, d, caps)
    \/ \E d \in DeviceIds :
          \/ RevokeDevice(d)
          \/ \E caps \in (SUBSET Capabilities) \ {{}} : UpdateManifest(d, caps)
          \/ \E c \in Commands, k \in Capabilities, s \in Skews : IssueCommand(c, d, k, s)
    \/ \E c \in Commands :
          \/ \E outcome \in {"completed", "failed"} : CompleteCommand(c, outcome)
          \/ ExecuteCommand(c)
    \/ RestartDevice \/ DeviceTick

DevicesSpec == DevicesInit /\ [][DevicesNext]_deviceVars

DevicesTypeOK ==
    /\ pairing \in [Pairings -> {"none", "open", "used", "expired"}]
    /\ device \in [DeviceIds -> [from : Pairings \cup {NoDevice},
                                 manifest : SUBSET Capabilities, revoked : BOOLEAN]]
    /\ command \in [Commands -> [to : DeviceIds \cup {NoDevice},
                                 capability : Capabilities \cup {NoDevice}, issued : Int,
                                 status : {"none", "issued", "completed", "failed"}]]
    /\ seenNonces \in [Commands -> Nat] /\ runs \in [Commands -> Nat]
    /\ replayGuard \in {"memory", "sqlite"} /\ time \in 0..MaxTime /\ restarts \in 0..MaxRestarts

(***************************************************************************)
(* A command runs at most once, however often its envelope arrives: the    *)
(* guard remembers the nonce for as long as verify_command would accept    *)
(* the envelope, also one dated ahead of the device's clock, in the last   *)
(* accepted second, and with a ttl shorter than the tolerance.  Only a     *)
(* guard in memory can be made to forget, once per restart.                *)
(***************************************************************************)
CommandsRunOnce ==
    \A c \in Commands : runs[c] <= 1 + (IF replayGuard = "memory" THEN restarts ELSE 0)
=============================================================================
