----------------------------- MODULE BundleStore -----------------------------
(***************************************************************************)
(* One baseline bundle directory, .agent_bench/baselines/<run_id>, under   *)
(* the commands that write it: `bundle seal`, `bundle sign` and `run       *)
(* --record` (agent_bench/runner/bundle.py, agent_bench/cli.py).  Every    *)
(* file is opened for writing, which empties it, and then filled; a write  *)
(* may fail, the process may die at any point, and between commands a file *)
(* may be edited or lost (a merge, a partial checkout).                    *)
(*                                                                         *)
(* The content of a file is what the checks tell apart.  "whole": written  *)
(* in full; "marked": with the marks of a signature; "edited": edited, and *)
(* passing the checks of declaration and audit as it now is; "refused":    *)
(* edited, and not passing them; "empty"; "torn": cut where the checks     *)
(* see it, so that a trace cut between two lines counts as empty or as     *)
(* torn.  A digest is the content it was computed from.                    *)
(***************************************************************************)
EXTENDS Integers, Sequences

CONSTANT MaxDamage    \* how often the directory is damaged: a bound

ASSUME BundleAssumption == MaxDamage \in Nat

VARIABLES conduct,    \* how the run it is of kept within its declaration
          content,    \* manifest.json, tool_calls.jsonl, validator.json
          integrity,  \* integrity.sha256: a digest for each listed file
          signature,  \* signature.json: the manifest's line in what it signs
          command,    \* the last command
          step,       \* what it does next
          filling,    \* the content of the file being written
          verdict,    \* how it ended
          rerun,      \* what the second run of --record came to
          health,     \* history: sealed in full, then perhaps damaged
          damages     \* history: how often it was damaged

vars == <<conduct, content, integrity, signature, command, step, filling,
          verdict, rerun, health, damages>>

Files == {"manifest", "tool_calls", "validator"}
Order == <<"manifest", "tool_calls", "validator">>
Contents == {"empty", "torn", "whole", "marked", "edited", "refused"}
Digests == Contents \cup {"unlisted", "garbled"}
Listings == [Files -> Digests]
NoFile == [f \in Files |-> "no file"]
Steps == Files \cup {"integrity", "check", "rerun", "signature", "mark", "relist"}
Idle == step = "idle"

DiskTypeOK ==
  /\ content \in [Files -> Contents \cup {"absent"}]
  /\ integrity \in Listings \cup {NoFile}
  /\ signature \in Digests \cup {"no file", "spoilt"}

CommandTypeOK ==
  /\ conduct \in {"undeclared", "outside", "within"}
  /\ command \in {"none", "seal", "seal_sign", "sign", "record"}
  /\ step \in Steps \cup {"idle"}
  /\ filling \in Contents \cup {"closed"}
  /\ verdict \in {"none", "running", "ok", "failed", "crashed"}
  /\ rerun \in {"none", "same", "differs", "raised"}
  /\ health \in {"unknown", "sound", "spoiled", "damaged"}

BundleTypeOK == DiskTypeOK /\ CommandTypeOK

-----------------------------------------------------------------------------
Unlisted == [f \in Files |-> "unlisted"]

\* _write_integrity: hashing a missing file raises, which keeps the lines
\* before it.
Listing ==
  LET Missing(n) == \E i \in 1 .. n : content[Order[i]] = "absent"
  IN  [f \in Files |->
         IF \E n \in 1 .. Len(Order) : Order[n] = f /\ ~Missing(n)
           THEN content[f] ELSE "unlisted"]

\* What a write that is cut short leaves of the listing.
CutListing(n, last) ==
  [f \in Files |-> IF \E i \in 1 .. n : Order[i] = f THEN Listing[f]
                   ELSE IF Order[n + 1] = f THEN last ELSE "unlisted"]

CutListings ==
  {Unlisted} \cup
  {CutListing(n, last) :
     n \in 0 .. Len(Order) - 1, last \in {"unlisted", "garbled"}}

\* The manifest parses and declares its roots and hosts, every line there is
\* of the trace parses, and its io_audit lies within the declaration.
Accepted ==
  /\ content["manifest"] \in {"whole", "marked", "edited"}
  /\ content["tool_calls"] \in {"whole", "edited", "empty"}
  /\ content["manifest"] \in {"whole", "marked"} =>
       /\ conduct # "undeclared"
       /\ content["tool_calls"] = "whole" => conduct = "within"

\* Mutant: a listed file has to exist, whatever it holds.
VerifiesExistence ==
  /\ integrity # NoFile
  /\ \A f \in Files : integrity[f] # "unlisted" => content[f] # "absent"
  /\ Accepted

\* verify_bundle asks for no file but the manifest and the trace: one that is
\* not listed need not be there.
Verifies ==
  /\ integrity # NoFile
  /\ \A f \in Files : integrity[f] # "unlisted" => integrity[f] = content[f]
  /\ Accepted

-----------------------------------------------------------------------------
Init ==
  /\ conduct \in {"undeclared", "outside", "within"}
  /\ content = [f \in Files |-> "absent"]
  /\ integrity = NoFile
  /\ signature = "no file"
  /\ command = "none"
  /\ step = "idle"
  /\ filling = "closed"
  /\ verdict = "none"
  /\ rerun = "none"
  /\ health = "unknown"
  /\ damages = 0

Begin(cmd, first) ==
  /\ Idle
  /\ command' = cmd
  /\ step' = first
  /\ verdict' = "running"
  /\ rerun' = "none"
  /\ UNCHANGED <<conduct, content, integrity, signature, filling, health, damages>>

\* seal_sign is `bundle seal --sign`.
BeginSeal == \E cmd \in {"seal", "seal_sign"} : Begin(cmd, "manifest")

BeginSign == integrity # NoFile /\ Begin("sign", "signature")

\* A recorded run is new, so its directory is too.
BeginRecord == command = "none" /\ Begin("record", "manifest")

\* Mutant: integrity.sha256 is not regenerated after the manifest is marked.
FollowsUnlisted ==
  [manifest |-> "tool_calls", tool_calls |-> "validator",
   validator |-> "integrity",
   integrity |-> IF command = "record" THEN "rerun" ELSE "check",
   check |-> IF command = "seal_sign" THEN "signature" ELSE "idle",
   signature |-> "mark", mark |-> "idle", relist |-> "idle", rerun |-> "idle"]

\* write_bundle; then verify_bundle or the second run; then sign_bundle.
Follows ==
  [manifest |-> "tool_calls", tool_calls |-> "validator",
   validator |-> "integrity",
   integrity |-> IF command = "record" THEN "rerun" ELSE "check",
   check |-> IF command = "seal_sign" THEN "signature" ELSE "idle",
   signature |-> "mark", mark |-> "relist", relist |-> "idle", rerun |-> "idle"]

\* A command is over after its last step; it may have failed before.
Ended == IF verdict = "running" THEN "ok" ELSE verdict

Advance ==
  /\ step' = Follows[step]
  /\ verdict' = IF Follows[step] = "idle" THEN Ended ELSE verdict

\* The content file a step writes.
Written == IF step = "mark" THEN "manifest" ELSE step

\* path.open("w") empties the file.
OpenFile(f) ==
  /\ step = f
  /\ filling = "closed"
  /\ filling' = "whole"
  /\ content' = [content EXCEPT ![f] = "empty"]
  /\ health' = "unknown"
  /\ UNCHANGED <<conduct, integrity, signature, command, step, verdict,
                 rerun, damages>>

\* sign_bundle reads the manifest before it rewrites it with its marks; one
\* that is missing or does not parse ends the signing, which reports success.
OpenMark ==
  /\ step = "mark"
  /\ filling = "closed"
  /\ IF content["manifest"] \in {"absent", "empty", "torn"}
       THEN /\ step' = "idle"
            /\ verdict' = Ended
            /\ UNCHANGED <<content, filling>>
       ELSE /\ filling' = IF content["manifest"] \in {"edited", "refused"}
                            THEN content["manifest"] ELSE "marked"
            /\ content' = [content EXCEPT !["manifest"] = "empty"]
            /\ UNCHANGED <<step, verdict>>
  /\ UNCHANGED <<conduct, integrity, signature, command, rerun, health,
                 damages>>

FillFile(f) ==
  /\ f = Written
  /\ filling # "closed"
  /\ content' = [content EXCEPT ![f] = filling]
  /\ filling' = "closed"
  /\ Advance
  /\ UNCHANGED <<conduct, integrity, signature, command, rerun, health,
                 damages>>

\* signature.json is written over the bytes of integrity.sha256 just read.
Sign ==
  /\ step = "signature"
  /\ signature' = integrity["manifest"]
  /\ Advance
  /\ UNCHANGED <<conduct, content, integrity, command, filling, rerun,
                 health, damages>>

\* write_bundle lists what it has written; sign_bundle lists what there is.
WriteIntegrity ==
  /\ step \in {"integrity", "relist"}
  /\ integrity' = Listing
  /\ Advance
  /\ health' = IF step = "integrity" \/ health = "sound" THEN "sound"
                                                         ELSE "unknown"
  /\ UNCHANGED <<conduct, content, signature, command, filling, rerun,
                 damages>>

\* bundle seal verifies what it has written, and signs it all the same.
CheckSealed ==
  /\ step = "check"
  /\ step' = Follows[step]
  /\ verdict' = IF ~Verifies THEN "failed"
                ELSE IF Follows[step] = "idle" THEN Ended ELSE verdict
  /\ UNCHANGED <<conduct, content, integrity, signature, command, filling,
                 rerun, health, damages>>

\* Mutant: the report of check_record is not looked at.
RerunUnchecked ==
  /\ step = "rerun"
  /\ rerun' \in {"same", "differs"}
  /\ Advance
  /\ UNCHANGED <<conduct, content, integrity, signature, command, filling,
                 health, damages>>

\* --record runs the episode again, and check_record finds the runs the same,
\* which only runs that keep within their declaration are for it.
RerunSame ==
  /\ step = "rerun"
  /\ conduct = "within"
  /\ rerun' = "same"
  /\ Advance
  /\ UNCHANGED <<conduct, content, integrity, signature, command, filling,
                 health, damages>>

\* The runs differ: the bundle is removed, but for what rmtree cannot remove.
RerunDiffers(kept) ==
  /\ step = "rerun"
  /\ rerun' = "differs"
  /\ content' = [f \in Files |-> IF f \in kept THEN content[f] ELSE "absent"]
  /\ integrity' = IF "integrity" \in kept THEN integrity ELSE NoFile
  /\ signature' = IF "signature" \in kept THEN signature ELSE "no file"
  /\ verdict' = "failed"
  /\ step' = "idle"
  /\ health' = "unknown"
  /\ UNCHANGED <<conduct, command, filling, damages>>

\* The second run raises, or exceeds its timeout: nothing catches that.
RerunRaises ==
  /\ step = "rerun"
  /\ rerun' = "raised"
  /\ verdict' = "failed"
  /\ step' = "idle"
  /\ UNCHANGED <<conduct, content, integrity, signature, command, filling,
                 health, damages>>

-----------------------------------------------------------------------------
\* A step is cut short: the file it was writing keeps what had reached the
\* disk, and the command takes no further step.
CutShort ==
  /\ \E left \in {"empty", "torn"} :
       content' = [f \in Files |->
                     IF filling # "closed" /\ f = Written THEN left
                                                          ELSE content[f]]
  /\ integrity' \in {integrity} \cup
       (IF step \in {"integrity", "relist"} THEN CutListings ELSE {})
  /\ signature' \in {signature} \cup
       (IF step = "signature" THEN {"spoilt"} ELSE {})
  /\ filling' = "closed"
  /\ step' = "idle"
  /\ UNCHANGED <<conduct, command, rerun, damages>>

\* A failing write ends write_bundle with its exception; signing that fails,
\* for want of a key too, is reported by sign_bundle.
WriteRaises ==
  /\ step \in Files \cup {"integrity", "signature"}
  /\ CutShort
  /\ verdict' = "failed"
  /\ health' = IF step = "signature" THEN health ELSE "unknown"

\* Once signature.json is written, sign_bundle swallows what fails while it
\* marks the manifest and lists the files again, and reports success.
MarkFails ==
  /\ step \in {"mark", "relist"}
  /\ CutShort
  /\ verdict' = Ended
  /\ health' = IF health = "sound" THEN "spoiled" ELSE "unknown"

\* The process dies.
Crash ==
  /\ ~Idle
  /\ CutShort
  /\ verdict' = "crashed"
  /\ health' = "unknown"

-----------------------------------------------------------------------------
Harm ==
  /\ Idle
  /\ damages < MaxDamage
  /\ damages' = damages + 1
  /\ health' = IF health = "sound" THEN "damaged" ELSE health

\* Between commands a file is edited, cut or lost.
Damage(f, becomes) ==
  /\ Harm
  /\ content[f] \notin {"absent", becomes}
  /\ content' = [content EXCEPT ![f] = becomes]
  /\ UNCHANGED <<conduct, integrity, signature, command, step, filling,
                 verdict, rerun>>

\* So is integrity.sha256: a line of it no longer parses or holds another
\* digest, or is lost, or the file is.
DamageListing(f, becomes) ==
  /\ Harm
  /\ integrity # NoFile
  /\ integrity' = IF becomes = "no file" THEN NoFile
                  ELSE [integrity EXCEPT ![f] = becomes]
  /\ integrity' # integrity
  /\ UNCHANGED <<conduct, content, signature, command, step, filling,
                 verdict, rerun>>

\* And signature.json, which no command reads.
DamageSignature(becomes) ==
  /\ Idle
  /\ damages < MaxDamage /\ damages' = damages + 1
  /\ signature \notin {"no file", becomes}
  /\ signature' = becomes
  /\ UNCHANGED <<conduct, content, integrity, command, step, filling,
                 verdict, rerun, health>>

Next ==
  \/ BeginSeal
  \/ BeginSign
  \/ BeginRecord
  \/ \E f \in Files : OpenFile(f) \/ FillFile(f)
  \/ OpenMark
  \/ Sign
  \/ WriteIntegrity
  \/ CheckSealed
  \/ RerunSame
  \/ \E kept \in SUBSET (Files \cup {"integrity", "signature"}) :
       RerunDiffers(kept)
  \/ RerunRaises
  \/ WriteRaises
  \/ MarkFails
  \/ Crash
  \/ \E f \in Files :
       \/ \E becomes \in {"edited", "refused", "torn", "absent"} :
            Damage(f, becomes)
       \/ \E becomes \in {"garbled", "unlisted", "no file"} :
            DamageListing(f, becomes)
  \/ \E becomes \in {"spoilt", "no file"} : DamageSignature(becomes)

Spec == Init /\ [][Next]_vars

-----------------------------------------------------------------------------
\* A command that runs to its end repairs whatever earlier crashes, failures
\* and damage left: every file is whole and listed, and signing the bundle
\* leaves it so.  It then verifies exactly if the run kept within a complete
\* declaration (bundle.py:105-136, 193-221, 259-323).
SoundBundleVerifies ==
  Idle /\ health = "sound" =>
    /\ \A f \in Files : content[f] \in {"whole", "marked"}
    /\ \A f \in Files : integrity[f] = content[f]
    /\ Verifies <=> conduct = "within"

\* Whatever is edited, cut or lost of the three files or of integrity.sha256
\* after the bundle was sealed, it verifies again only once a command has
\* written it again (bundle.py:236-252).  The exception is a file whose own
\* line is lost from integrity.sha256: verify asks for no file's line, so only
\* the damage to such files can pass.  signature.json is not read at all.
DamageIsDetected ==
  Idle /\ health = "damaged" /\ Verifies =>
    /\ \E f \in Files : integrity[f] = "unlisted"
    /\ \A f \in Files :
         integrity[f] = "unlisted" \/ content[f] \in {"whole", "marked"}

\* bundle seal and --record report success only for a run within its
\* declaration whose bundle they have written and listed in full, --record
\* only if the second run was the same (cli.py:267-278, 497-535).  The one
\* failure they hide is what sign_bundle swallows after it has signed
\* (bundle.py:211-221): without --sign there is none.
SuccessMeansSound ==
  Idle /\ verdict = "ok" /\ command \in {"seal", "seal_sign", "record"} =>
    /\ conduct = "within"
    /\ health # "unknown"
    /\ health = "spoiled" => command = "seal_sign"
    /\ command = "record" => rerun = "same"

-----------------------------------------------------------------------------
\* The invariant behind the three.  The steps of each command, in which it has
\* not ended yet.
Takes ==
  [seal |-> Files \cup {"integrity", "check"}, seal_sign |-> Steps \ {"rerun"},
   record |-> Files \cup {"integrity", "rerun"},
   sign |-> {"signature", "mark", "relist"}, none |-> {}]

StepInv ==
  ~Idle =>
    /\ step \in Takes[command]
    /\ verdict \in {"running", "failed"}

\* A file is open only during the step that writes it.
Marking == step = "mark" /\ filling # "closed"

FillingInv ==
  filling # "closed" =>
    \/ step \in Files /\ filling = "whole" /\ health = "unknown"
    \/ /\ step = "mark" /\ filling \in {"marked", "edited", "refused"}
       /\ content["manifest"] = "empty"

TracesWhole == content["tool_calls"] = "whole" /\ content["validator"] = "whole"

\* What a command that writes the whole bundle has written so far; what it
\* signs has verified, or the command has failed.
WrittenInv ==
  command \in {"seal", "seal_sign", "record"} =>
    /\ step \in {"tool_calls", "validator"} => content["manifest"] = "whole"
    /\ step = "validator" => content["tool_calls"] = "whole"
    /\ step = "integrity" => content["manifest"] = "whole" /\ TracesWhole
    /\ step \in {"check", "signature", "mark", "relist", "rerun"} =>
         health = "sound"
    /\ step \in {"signature", "mark", "relist"} /\ verdict = "running" =>
         conduct = "within"

\* What a file holds, or is about to.
Holds(f) == IF Marking /\ f = "manifest" THEN filling ELSE content[f]

\* A bundle sealed in full stays so while it is signed: its manifest is
\* rewritten with its marks, and only then is it listed again.
SoundInv ==
  health = "sound" =>
    /\ TracesWhole /\ Holds("manifest") \in {"whole", "marked"}
    /\ \A f \in Files \ {"manifest"} : integrity[f] = content[f]
    /\ integrity["manifest"] = content["manifest"] \/ Marking \/ step = "relist"

\* In a damaged one some file or its line is none that was ever written, until
\* the files are listed again.
DamagedInv ==
  health = "damaged" =>
    /\ \/ integrity = NoFile
       \/ \A f \in Files :
            integrity[f] \in {"whole", "marked", "garbled", "unlisted"}
    /\ \/ \E f \in Files : integrity[f] \in {"no file", "garbled", "unlisted"}
       \/ \E f \in Files : Holds(f) \notin {"whole", "marked"}

BundleInv ==
  /\ BundleTypeOK
  /\ StepInv
  /\ FillingInv
  /\ WrittenInv
  /\ SoundInv
  /\ DamagedInv
  /\ SuccessMeansSound

-----------------------------------------------------------------------------
\* docs/governance/signing_key_rotation_guide.md:53 and 73-81: signature.json
\* signs the integrity.sha256 that is beside it.
SignatureMatchesIntegrity ==
  Idle /\ command = "sign" /\ verdict = "ok" /\ health = "sound"
    /\ signature \in Digests =>
    signature = integrity["manifest"]
=============================================================================
