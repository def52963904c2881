------------------------------ MODULE MCUploader ------------------------------
(* Small instances of Uploader for TLC. *)
EXTENDS Uploader

CONSTANTS u1, u2

Config(kind, mode, exit, stream) ==
  [kind |-> kind, mode |-> mode, exit |-> exit, stream |-> stream]

\* Every way to construct an uploader, fstream given only where it matters.
AllConfigs ==
  {f \in ConfigType : /\ f.kind = "multi" => f.mode # "pipe"
                      /\ f.stream => f.mode = "dryrun"}

\* Those that raise when a statement fails.
StrictConfigs == {f \in AllConfigs : f.exit}

CommitConfigs == {Config(k, "commit", TRUE, FALSE) : k \in {"single", "multi"}}
=============================================================================
