------------------------------- MODULE Security -------------------------------
(***************************************************************************)
(* The master password (src/lwetl/security.py), the configuration files    *)
(* with their aliases (src/lwetl/config_parser.py) and the program         *)
(* lwetl-security that rewrites them. One process runs at a time; the key  *)
(* ring and the files stay.                                                *)
(*                                                                         *)
(* The text of a password is abstracted to the keys it is encrypted with,  *)
(* the last one first: the empty sequence is the password in plain text.   *)
(* Two master passwords that fill up to the same 32 bytes are one key.     *)
(***************************************************************************)
EXTENDS Naturals, Sequences, SequencesExt, FiniteSets

CONSTANTS
  Aliases,    \* the login aliases
  Awkward,    \* those whose password holds an '@'
  Keys,       \* the master passwords the user may type or set LWETL to
  Whole,      \* those of 32 characters
  NoKey,      \* no master password
  Ring,       \* whether the machine has a key ring that can be written
  MaxRuns,    \* bound: number of processes
  FirstFiles  \* the configuration files to begin with, the last one winning

ASSUME SecurityAssumption ==
  /\ Awkward \subseteq Aliases /\ NoKey \notin Keys /\ Whole \subseteq Keys
  /\ Ring \in BOOLEAN /\ MaxRuns \in Nat

\* To begin with, no password is encrypted.
ASSUME FilesAssumption ==
  FirstFiles \subseteq
    Seq([encrypt : {"yes", "no", "absent"},
         alias : UNION {[defined -> {<< >>}] : defined \in SUBSET Aliases}])

VARIABLES
  files,    \* the sequence of configuration files, [encrypt, alias]
  keyring,  \* external: the password stored in the key ring
  env,      \* the variable LWETL of the process
  program,  \* the running program, "none", or "login" for one that connects
  phase,    \* "parse", "command", "encrypt", "write", "written" or "connect"
  KEY,      \* the global KEY of security.py
  config,   \* the merged configuration
  todo,     \* the aliases the loop of the phase has not come to
  target,   \* args.output_file: the number of a configuration file, "-" being the
            \* largest of them, or 0 for stdout and other files
  asked,    \* the password that set was given
  got,      \* the credentials of the last login: [left, key], or nothing
  under,    \* history: the key of the last write to a file, NoKey for remove
  damaged,  \* history: it wrote encrypted text as if it were plain
  overruled, \* history: it went to a file below one that says otherwise
  runs      \* number of processes started

history == <<under, damaged, overruled>>
vars == <<files, keyring, env, program, phase, KEY, config, todo, target, asked,
          got, history, runs>>

Plain == << >>
Nothing == [left |-> Plain, key |-> NoKey]

-----------------------------------------------------------------------------
(* Configuration: merge() and the loop over the files.                     *)

\* Two dictionaries as one: what both define is taken from the first.
Over(first, second) ==
  [a \in DOMAIN first \cup DOMAIN second |->
     IF a \in DOMAIN first THEN first[a] ELSE second[a]]

NoConfig == [encrypt |-> "absent", alias |-> << >>]

\* Mutant of Merge: what is defined already stays.
MergeKeeps(source, destination) ==
  [encrypt |-> IF destination.encrypt = "absent" THEN source.encrypt
               ELSE destination.encrypt,
   alias   |-> Over(destination.alias, source.alias)]

\* merge: the values of source take precedence.
Merge(source, destination) ==
  [encrypt |-> IF source.encrypt = "absent" THEN destination.encrypt
               ELSE source.encrypt,
   alias   |-> Over(source.alias, destination.alias)]

Loaded == FoldLeft(LAMBDA c, file : Merge(file, c), NoConfig, files)

\* CFG_ENCRYPT and pw_encrypted: passwords are encrypted unless told otherwise.
Encrypted == config.encrypt # "no"

-----------------------------------------------------------------------------
(* security.py                                                             *)

\* Mutant of InitKey: the key is not kept.
InitKeyForgets(k) == KEY' = KEY

\* init_key: the first key of a process stays its key. One of 32 characters is
\* not turned into bytes, and fails (TypeError) whenever it is used.
InitKey(k) == KEY' = IF KEY = NoKey THEN k ELSE KEY

\* get_key without an argument: the key of the process, else LWETL, else the
\* key ring, else what the user types, which goes to the key ring unchecked.
Typed == KEY = NoKey /\ env = NoKey /\ keyring = NoKey
KeyAtHand == IF KEY # NoKey THEN KEY ELSE IF env # NoKey THEN env ELSE keyring

GetKey(k) ==
  /\ k \in IF Typed THEN Keys ELSE {KeyAtHand}
  /\ keyring' = IF Typed /\ Ring THEN k ELSE keyring
  /\ InitKey(k)

\* decrypt fails on plain text and on text of another key.
Decrypts(text, k) == text # Plain /\ Head(text) = k
Decrypted(text, k) == IF Decrypts(text, k) THEN Tail(text) ELSE text

\* Mutant of TooLong: the length is not tested.
NeverTooLong(text) == FALSE

\* encrypt: at most 127 characters; text that is encrypted already is longer.
TooLong(text) == text # Plain

-----------------------------------------------------------------------------
Init ==
  /\ files \in FirstFiles
  /\ keyring = NoKey /\ env = NoKey
  /\ program = "none" /\ phase = "parse"
  /\ KEY = NoKey /\ config = NoConfig
  /\ todo = {} /\ target = 0 /\ asked = NoKey
  /\ got = Nothing /\ under = NoKey
  /\ damaged = FALSE /\ overruled = FALSE
  /\ runs = 0

\* A process begins: the configuration is loaded, LWETL is what the shell says.
Start ==
  /\ program = "none" /\ runs < MaxRuns
  /\ runs' = runs + 1
  /\ program' \in {"set", "remove", "delete-keyring", "test", "login"}
  /\ env' \in Keys \cup {NoKey}
  /\ target' \in IF program' \in {"set", "remove"} THEN 0 .. Len(files) ELSE {0}
  /\ config' = Loaded
  /\ todo' = DOMAIN config'.alias
  /\ phase' = IF program' = "login" THEN "connect" ELSE "parse"
  /\ KEY' = NoKey /\ got' = Nothing /\ asked' = NoKey
  /\ UNCHANGED <<files, keyring, history>>

\* The process ends.
Stop ==
  /\ program' = "none"
  /\ UNCHANGED <<env, target, asked, got, runs>>

-----------------------------------------------------------------------------
(* lwetl-security                                                          *)

\* parse_credentials, for one alias: it splits only the text with a single '@'.
\* What cannot be decrypted is kept, with a warning.
Split(a) == a \notin Awkward

ParseCredentials(a) ==
  /\ phase = "parse" /\ a \in todo
  /\ todo' = todo \ {a}
  /\ IF Split(a) /\ Encrypted
     THEN \E k \in Keys \ Whole :
            /\ GetKey(k)
            /\ config' = [config EXCEPT !.alias[a] = Decrypted(@, k)]
     ELSE UNCHANGED <<keyring, KEY, config>>
  /\ UNCHANGED <<files, env, program, phase, target, asked, got, history, runs>>

\* The key has 32 characters: the process ends, but for what it has put into the
\* key ring.
ParseFails(a) ==
  /\ phase = "parse" /\ program # "none" /\ a \in todo
  /\ Split(a) /\ Encrypted
  /\ \E k \in Whole : GetKey(k)
  /\ Stop
  /\ UNCHANGED <<files, phase, config, todo, history>>

Parsed == phase = "parse" /\ todo = {}

\* set: the new password comes from LWETL (-n), or is typed; it is the key of
\* the process only if nothing had to be decrypted before.
Set ==
  /\ Parsed /\ program = "set"
  /\ asked' \in Keys \ Whole
  /\ InitKey(asked')
  /\ config' = [config EXCEPT !.encrypt = "yes"]
  /\ todo' = DOMAIN config.alias
  /\ phase' = "encrypt"
  /\ UNCHANGED <<files, keyring, env, program, target, got, history, runs>>

SetFails ==
  /\ Parsed /\ program = "set"
  /\ \E k \in Whole : InitKey(k)
  /\ Stop
  /\ UNCHANGED <<files, keyring, phase, config, todo, history>>

RemoveEncryption ==
  /\ Parsed /\ program = "remove"
  /\ config' = [config EXCEPT !.encrypt = "no"]
  /\ phase' = "write"
  /\ UNCHANGED <<files, keyring, env, program, KEY, todo, target, asked, got, history, runs>>

\* delete-keyring looks for the password of its own module, where none is kept:
\* the key ring stays.
DeleteKeyring ==
  /\ Parsed /\ program = "delete-keyring"
  /\ Stop
  /\ UNCHANGED <<files, keyring, phase, KEY, config, todo, history>>

\* test: a connection for every alias.
Test ==
  /\ Parsed /\ program = "test"
  /\ config' = Loaded
  /\ todo' = DOMAIN config.alias
  /\ phase' = "connect"
  /\ UNCHANGED <<files, keyring, env, program, KEY, target, asked, got, history, runs>>

EncryptAlias(a) ==
  /\ phase = "encrypt" /\ program = "set" /\ a \in todo
  /\ ~(Split(a) /\ TooLong(config.alias[a]))
  /\ todo' = todo \ {a}
  /\ IF Split(a)
     THEN \E k \in Keys :
            /\ GetKey(k)
            /\ config' = [config EXCEPT !.alias[a] = <<k>> \o @]
     ELSE UNCHANGED <<keyring, KEY, config>>
  /\ UNCHANGED <<files, env, program, phase, target, asked, got, history, runs>>

\* The password is still encrypted: RuntimeError, and nothing is written.
EncryptFails(a) ==
  /\ phase = "encrypt" /\ program = "set" /\ a \in todo
  /\ Split(a) /\ TooLong(config.alias[a])
  /\ Stop
  /\ UNCHANGED <<files, keyring, phase, KEY, config, todo, history>>

\* A file that wins over the output has another setting, or another text for
\* one of the aliases.
Overruled ==
  \E f \in target + 1 .. Len(files) :
    \/ files[f].encrypt \notin {"absent", config.encrypt}
    \/ \E a \in DOMAIN files[f].alias : files[f].alias[a] # config.alias[a]

\* The merged configuration of all files goes to the output file, or to stdout.
Write ==
  /\ \/ phase = "encrypt" /\ program = "set" /\ todo = {}
     \/ phase = "write"
  /\ phase' = "written"
  /\ IF target = 0 THEN UNCHANGED <<files, history>>
     ELSE /\ files' = [files EXCEPT ![target] = config]
          /\ under' = IF program = "set" THEN KEY ELSE NoKey
          /\ damaged' = (program = "remove" /\
                           \E a \in DOMAIN config.alias : config.alias[a] # Plain)
          /\ overruled' = Overruled
  /\ UNCHANGED <<keyring, env, program, KEY, config, todo, target, asked, got, runs>>

\* parse_login, for the alias of a new connection; text that cannot be
\* decrypted is the password.
Login(a) ==
  /\ phase = "connect" /\ program # "none" /\ a \in todo
  /\ todo' = todo \ {a}
  /\ IF Encrypted
     THEN \E k \in Keys :
            /\ GetKey(k)
            /\ got' = [left |-> Decrypted(config.alias[a], k), key |-> k]
     ELSE /\ got' = [left |-> config.alias[a], key |-> NoKey]
          /\ UNCHANGED <<keyring, KEY>>
  /\ UNCHANGED <<files, env, program, phase, config, target, asked, history, runs>>

Exit ==
  /\ program # "none"
  /\ phase = "written" \/ phase = "connect"
  /\ Stop
  /\ UNCHANGED <<files, keyring, phase, KEY, config, todo, history>>

Next ==
  \/ Start \/ Set \/ SetFails \/ RemoveEncryption \/ DeleteKeyring \/ Test \/ Write \/ Exit
  \/ \E a \in Aliases :
       ParseCredentials(a) \/ ParseFails(a) \/ EncryptAlias(a) \/ EncryptFails(a) \/ Login(a)

Spec == Init /\ [][Next]_vars

-----------------------------------------------------------------------------
ConfigOK(c) ==
  /\ c.encrypt \in {"yes", "no", "absent"}
  /\ DOMAIN c.alias \subseteq Aliases
  /\ \A a \in DOMAIN c.alias : c.alias[a] \in Seq(Keys)

\* The shape of every variable; a process that has asked for a key keeps it.
TypeOK ==
  /\ \A f \in DOMAIN files : ConfigOK(files[f])
  /\ ConfigOK(config)
  /\ {keyring, env, KEY, asked, got.key, under} \subseteq Keys \cup {NoKey}
  /\ keyring # NoKey => Ring
  /\ todo \subseteq DOMAIN config.alias
  /\ got.key # NoKey => got.key = KEY
  /\ target \in 0 .. Len(files) /\ runs \in 0 .. MaxRuns

\* Whatever the keys that are typed, set and removed in whatever order, every
\* password in a file is plain text or encrypted once: one key opens it.
NeverTwiceEncrypted ==
  \A f \in DOMAIN files :
    \A a \in DOMAIN files[f].alias : Len(files[f].alias[a]) <= 1

\* After every write to one of the files that no file winning over it overrules
\* and that has written no text it could not decrypt: a process whose key is
\* the one of that set, or that is told not to ask for one, reads every
\* password, that of an alias no file encrypts included.
LoginsKeepWorking ==
  /\ ~damaged /\ ~overruled
  /\ got # Nothing /\ (under = NoKey \/ got.key \in {under, NoKey})
  => got.left = Plain

\* set imposes the password it asks for: the passwords it writes are encrypted
\* with it.
NewPasswordImposed ==
  program = "set" /\ phase = "written" =>
    \A a \in DOMAIN config.alias \ Awkward : config.alias[a] = <<asked>>

=============================================================================
