------------------------------ MODULE EnginePin ------------------------------
(***************************************************************************)
(* The identity of the documentation engine that a checkout commits        *)
(* (src/src/simdoc_pin.rs), the launch that holds the engine to it         *)
(* (src/src/simdoc_route.rs), the engine's build script                    *)
(* (src/crates/simdoc/build.rs) and its own look at the programs it is     *)
(* about to run (src/crates/simdoc/src/tools.rs).                          *)
(*                                                                         *)
(* One launch, any number of simdoc-pin runs, and a developer who edits    *)
(* the engine, changes the channel and installs toolchains in between.     *)
(* The source stands for the sources and the lock of the engine; a digest  *)
(* is what it is the digest of; the commits of cargo and rustc are one.    *)
(***************************************************************************)
EXTENDS Naturals

CONSTANTS
  Sources,      \* contents of the engine's source tree
  Toolchains,   \* toolchains: [host, release, commit, content]
  NoToolchain,  \* of a place that holds none, and of a host without a digest
  NoPin,        \* of a manifest without an identity
  MaxChanges    \* bound on what the developer changes

Hosts == {t.host : t \in Toolchains}
Releases == {t.release : t \in Toolchains}

Commits == {t.commit : t \in Toolchains}

ASSUME PinAssumption ==
  /\ NoToolchain \notin Toolchains /\ MaxChanges \in Nat
  /\ NoPin \notin [source : Sources, channel : Releases, commit : Commits,
                   digests : [Hosts -> Toolchains \cup {NoToolchain}]]

VARIABLES
  source,    \* the engine's source tree
  channel,   \* what rust-toolchain.toml pins
  place,     \* the toolchain at each candidate root
  manifest,  \* the identity in the root Cargo.toml
  launch,    \* the launch
  pinner,    \* the simdoc-pin that is under way
  changes,   \* number of changes made so far
  clean,     \* history: nothing was changed since the last pin or successful check began
  mixed      \* history: a pin was written of a toolchain that was changed meanwhile

engineVars == <<source, channel, place, manifest, launch, pinner, changes, clean, mixed>>

(* The root of the cargo that started xtask, and that of the pinned channel. *)
Places == {"started", "rustup"}

NoExecutable == [hash |-> "none", tools |-> NoToolchain, code |-> "none"]
(* stale is what cargo will find changed.  late, moved and clean are history: whether the
   source changed after the build script first read it, whether the pin changed since it
   was read, and whether nothing has since a pin was made. *)
Idle == [pc |-> "idle", pin |-> NoPin, at |-> "started", tools |-> NoToolchain, exe |-> NoExecutable,
         stale |-> FALSE, late |-> FALSE, moved |-> FALSE, clean |-> FALSE]
NotPinning == [pc |-> "idle", check |-> FALSE, pin |-> NoPin, source |-> "none", channel |-> "none",
               digest |-> NoToolchain, clean |-> FALSE]

EngineInit ==
  /\ source \in Sources /\ channel \in Releases
  /\ place \in [Places -> Toolchains \cup {NoToolchain}]
  /\ manifest = NoPin /\ launch = Idle /\ pinner = NotPinning
  /\ changes = 0 /\ clean = FALSE /\ mixed = FALSE
-----------------------------------------------------------------------------
(* simdoc-pin (simdoc_pin.rs). *)

(* The manifest, the engine and the channel are read, *)
Measure ==
  /\ pinner.pc = "idle"
  /\ \E check \in BOOLEAN :
       pinner' = [pc |-> "digest", check |-> check, pin |-> manifest, source |-> source,
                  channel |-> channel, digest |-> NoToolchain, clean |-> TRUE]
  /\ UNCHANGED <<source, channel, place, manifest, launch, changes, clean, mixed>>

(* then the digest of the running toolchain, *)
Digest ==
  /\ pinner.pc = "digest"
  /\ pinner' = IF place["started"] = NoToolchain THEN NotPinning
               ELSE [pinner EXCEPT !.pc = "report", !.digest = place["started"]]
  /\ UNCHANGED <<source, channel, place, manifest, launch, changes, clean, mixed>>

(* Mutant: what other hosts committed is kept whatever the release. *)
MutMeasured(running) ==
  LET previous == pinner.pin
      kept == IF previous # NoPin THEN previous.digests ELSE [h \in Hosts |-> NoToolchain]
  IN [source |-> pinner.source, channel |-> pinner.channel, commit |-> running.commit,
      digests |-> [kept EXCEPT ![running.host] = pinner.digest]]

(* What other hosts committed is kept while it describes the same release. *)
Measured(running) ==
  LET previous == pinner.pin
      same == previous # NoPin /\ previous.channel = pinner.channel /\ previous.commit = running.commit
      kept == IF same THEN previous.digests ELSE [h \in Hosts |-> NoToolchain]
  IN [source |-> pinner.source, channel |-> pinner.channel, commit |-> running.commit,
      digests |-> [kept EXCEPT ![running.host] = pinner.digest]]

(* Mutant: the digest of the running toolchain is not compared. *)
MutIsCurrent(committed, running) ==
  /\ committed # NoPin
  /\ committed.source = pinner.source /\ committed.channel = pinner.channel
  /\ committed.commit = running.commit

IsCurrent(committed, running) ==
  /\ committed # NoPin
  /\ committed.source = pinner.source /\ committed.channel = pinner.channel
  /\ committed.commit = running.commit
  /\ committed.digests[running.host] = pinner.digest

(* and last what its cargo and rustc report, and the manifest is compared or written.  *)
Pin ==
  /\ pinner.pc = "report"
  /\ LET running == place["started"]
         reported == running # NoToolchain /\ running.release = pinner.channel
     IN \/ /\ ~reported \/ (reported /\ pinner.check /\ ~IsCurrent(pinner.pin, running))
           /\ UNCHANGED <<manifest, launch, clean, mixed>>
        \/ /\ reported /\ pinner.check /\ IsCurrent(pinner.pin, running)
           /\ clean' = (clean \/ pinner.clean)
           /\ UNCHANGED <<manifest, launch, mixed>>
        \/ /\ reported /\ ~pinner.check
           /\ manifest' = Measured(running)
           /\ launch' = [launch EXCEPT !.stale = TRUE, !.moved = @ \/ manifest' # manifest]
           /\ clean' = pinner.clean /\ mixed' = (mixed \/ ~pinner.clean)
  /\ pinner' = NotPinning
  /\ UNCHANGED <<source, channel, place, changes>>
-----------------------------------------------------------------------------
(* The launch (verified_engine of simdoc_route.rs). *)

Refused(l) == [l EXCEPT !.pc = "refused"]
Launched(from, l) ==
  /\ launch.pc = from /\ launch' = l
  /\ UNCHANGED <<source, channel, place, manifest, pinner, changes, clean, mixed>>

ReadPin ==
  LET l == [launch EXCEPT !.pin = manifest, !.clean = clean, !.moved = FALSE]
  IN Launched("idle", IF manifest = NoPin THEN Refused(l) ELSE [l EXCEPT !.pc = "source"])

(* verify_source. *)
VerifySource ==
  Launched("source", IF source = launch.pin.source /\ channel = launch.pin.channel
                     THEN [launch EXCEPT !.pc = "locate"] ELSE Refused(launch))

(* accept: the content and what it reports are those committed for its host. *)
Accepts(pin, t) ==
  /\ t # NoToolchain /\ pin.digests[t.host] = t
  /\ t.release = pin.channel /\ t.commit = pin.commit

(* locate_toolchain: the candidates are looked at in order. *)
Locate ==
  LET found(p) == [launch EXCEPT !.pc = "script", !.at = p, !.tools = place[p]]
  IN Launched("locate", CASE Accepts(launch.pin, place["started"]) -> found("started")
                          [] ~Accepts(launch.pin, place["started"]) /\ Accepts(launch.pin, place["rustup"])
                               -> found("rustup")
                          [] OTHER -> Refused(launch))

(* cargo runs the build script (build.rs), which takes only a toolchain that the manifest
   pins now, and embeds what it finds, *)
ScriptAccepts(t) ==
  t # NoToolchain /\ t.release = channel /\ manifest # NoPin /\ manifest.digests[t.host] = t

BuildScript ==
  \E again \in BOOLEAN :
    LET t == place[launch.at]
    IN Launched(IF again THEN "rescript" ELSE "script",
                IF ScriptAccepts(t)
                THEN [launch EXCEPT !.pc = IF again THEN "recompile" ELSE "compile", !.stale = FALSE, !.late = again /\ @,
                                    !.exe = [hash |-> source, tools |-> t, code |-> "none"]]
                ELSE Refused(launch))

(* and compiles the source, as it is by then. *)
Compile ==
  \E again \in BOOLEAN :
    Launched(IF again THEN "recompile" ELSE "compile",
             IF place[launch.at] = NoToolchain THEN Refused(launch)
             ELSE [launch EXCEPT !.pc = IF again THEN "tools" ELSE "identity", !.exe.code = source])

(* Mutant: the engine may embed any source. *)
MutIdentityMatches(l) == l.exe.tools = l.pin.digests[l.tools.host] /\ l.exe.tools.commit = l.pin.commit

(* verify_identity: what the engine embeds is what the pin says, for the host of the
   toolchain that was located. *)
IdentityMatches(l) ==
  /\ l.exe.hash = l.pin.source
  /\ l.exe.tools.release = l.pin.channel /\ l.exe.tools.commit = l.pin.commit
  /\ l.exe.tools = l.pin.digests[l.tools.host]

VerifyIdentity ==
  Launched("identity", IF IdentityMatches(launch) THEN [launch EXCEPT !.pc = "command"] ELSE Refused(launch))

(* The command is a second cargo run, which builds again what it finds changed.  A
   toolchain that reports the same is the same to cargo. *)
RunCommand ==
  LET t == place[launch.at]
      same == t.release = launch.exe.tools.release /\ t.commit = launch.exe.tools.commit
                /\ t.host = launch.exe.tools.host
  IN Launched("command", CASE t = NoToolchain -> Refused(launch)
                           [] t # NoToolchain /\ (launch.stale \/ ~same) -> [launch EXCEPT !.pc = "rescript"]
                           [] OTHER -> [launch EXCEPT !.pc = "tools"])

(* Tools::verify: the engine runs programs only of the toolchain it was built with. *)
VerifyTools ==
  Launched("tools", IF place[launch.at] = launch.exe.tools THEN [launch EXCEPT !.pc = "ran"]
                    ELSE Refused(launch))
-----------------------------------------------------------------------------
(* The developer. *)

Edited(touched, late) ==
  /\ changes < MaxChanges /\ changes' = changes + 1
  /\ clean' = FALSE /\ pinner' = [pinner EXCEPT !.clean = FALSE]
  /\ launch' = [launch EXCEPT !.clean = FALSE, !.stale = @ \/ touched, !.late = @ \/ late]

EditSource ==
  /\ source' \in Sources \ {source} /\ Edited(TRUE, TRUE)
  /\ UNCHANGED <<channel, place, manifest, mixed>>

EditChannel ==
  /\ channel' \in Releases \ {channel} /\ Edited(TRUE, FALSE)
  /\ UNCHANGED <<source, place, manifest, mixed>>

Install ==
  /\ \E p \in Places : \E t \in (Toolchains \cup {NoToolchain}) \ {place[p]} :
       place' = [place EXCEPT ![p] = t]
  /\ Edited(FALSE, FALSE)
  /\ UNCHANGED <<source, channel, manifest, mixed>>
-----------------------------------------------------------------------------
Launch ==
  \/ ReadPin \/ VerifySource \/ Locate \/ BuildScript \/ Compile \/ VerifyIdentity \/ RunCommand \/ VerifyTools

EngineNext == Measure \/ Digest \/ Pin \/ Launch \/ EditSource \/ EditChannel \/ Install

EngineSpec == EngineInit /\ [][EngineNext]_engineVars
-----------------------------------------------------------------------------
Pins == [source : Sources, channel : Releases, commit : Commits,
         digests : [Hosts -> Toolchains \cup {NoToolchain}]]

Launches ==
  [pc : {"idle", "source", "locate", "script", "compile", "identity", "command", "rescript",
         "recompile", "tools", "ran", "refused"},
   pin : Pins \cup {NoPin}, at : Places, tools : Toolchains \cup {NoToolchain},
   exe : [hash : Sources \cup {"none"}, tools : Toolchains \cup {NoToolchain}, code : Sources \cup {"none"}],
   stale : BOOLEAN, late : BOOLEAN, moved : BOOLEAN, clean : BOOLEAN]

Pinners ==
  [pc : {"idle", "digest", "report"}, check : BOOLEAN, pin : Pins \cup {NoPin},
   source : Sources \cup {"none"}, channel : Releases \cup {"none"},
   digest : Toolchains \cup {NoToolchain}, clean : BOOLEAN]

EngineTypeOK ==
  /\ source \in Sources /\ channel \in Releases
  /\ place \in [Places -> Toolchains \cup {NoToolchain}]
  /\ manifest \in Pins \cup {NoPin} /\ launch \in Launches /\ pinner \in Pinners
  /\ pinner.pc # "idle" => pinner.source \in Sources /\ pinner.channel \in Releases
  /\ changes \in Nat /\ clean \in BOOLEAN /\ mixed \in BOOLEAN

(* What runs was compiled from the source that the pin commits, unless somebody changed it
   after the build script had read it, and uses the toolchain that it was built with, which
   the pin commits for its host unless the pin was made anew: whatever was changed before
   is refused (simdoc_pin.rs:26-36). *)
EngineIsCommitted ==
  launch.pc = "ran" =>
    /\ ~launch.late => launch.exe.code = launch.pin.source
    /\ ~launch.moved => launch.pin.digests[launch.exe.tools.host] = launch.exe.tools

(* Every digest in the manifest is of a toolchain of the release and the commit that it
   names, however often it was pinned on which host, if no toolchain was changed under a
   pin (simdoc_pin.rs:535). *)
PinIsCoherent ==
  ~mixed /\ manifest # NoPin =>
    \A h \in Hosts : manifest.digests[h] # NoToolchain =>
      /\ manifest.digests[h].host = h
      /\ manifest.digests[h].release = manifest.channel /\ manifest.digests[h].commit = manifest.commit

(* Where nothing was changed since simdoc-pin, or since its check found the identity to be
   current, no launch is refused. *)
PinnedIsAccepted == launch.pc = "refused" => ~launch.clean
=============================================================================
