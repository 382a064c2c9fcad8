------------------------------ MODULE Identity ------------------------------
(***************************************************************************)
(* A node's identity on disk: the commands of src/src/main.rs that write   *)
(* and read it, Config::save() and load() of src/src/config.rs, and the    *)
(* keys of src/src/crypto.rs.  The public key is part of the configuration *)
(* file; the private key, which serde skips, goes to a second file beside  *)
(* it, and the running node makes a public key of it anew.                 *)
(* std::fs::write() empties a file before it fills it, so a command that   *)
(* writes one is two actions, and it may die between any two of them.      *)
(***************************************************************************)
CONSTANTS
    Procs,      \* processes a command may run in
    Files,      \* the files of the disk
    Paths,      \* the files given as --output or --config
    KeyPath,    \* path.with_extension("key") of each
    SecretKeys  \* the secret keys there are to draw: a bound on generations

ASSUME PathsAssumption == Paths \subseteq Files /\ KeyPath \in [Paths -> Files]

VARIABLES
    disk,   \* what each file holds
    proc,   \* what each process is doing
    drawn   \* auxiliary: the secret keys generated for each path so far

idVars == <<disk, proc, drawn>>

\* Each secret key has a public key of its own.  What to_hex() writes of one,
\* from_hex() reads.
PublicKey(secret) == [publicOf |-> secret]
Publics(secrets) == {PublicKey(secret) : secret \in secrets}
PublicKeys == Publics(SecretKeys)

\* KeyPair::generate() and from_secret_key() make the same of a secret key.
KeyPair(secret) == [secret |-> secret, public |-> PublicKey(secret)]

Absent == [kind |-> "absent"]
Empty == [kind |-> "empty"]
Content == {Absent, Empty} \cup [kind : {"config"}, public : PublicKeys]
                          \cup [kind : {"key"}, secret : SecretKeys]

Quiet == [at |-> "none"]
Proc == {Quiet}
    \cup [at : {"config", "saved", "key"}, path : Paths, secret : SecretKeys]
    \cup [at : {"loaded"}, path : Paths, public : PublicKeys]
    \cup [at : {"running"}, path : Paths, public : PublicKeys,
          keypair : {KeyPair(secret) : secret \in SecretKeys}]

IdInit ==
    /\ disk = [f \in Files |-> Absent]
    /\ proc = [p \in Procs |-> Quiet]
    /\ drawn = [path \in Paths |-> {}]

\* SecretKey::random() draws none twice.
Fresh == SecretKeys \ UNION {drawn[path] : path \in Paths}

\* What save() writes: of all it writes only the key is not in the command line
\* or a default.
Saved(secret) == [kind |-> "config", public |-> PublicKey(secret)]

KeyFile(p) == KeyPath[proc[p].path]

-----------------------------------------------------------------------------
(* Mutated forms of actions below, which the specification does not use.   *)

\* A private key that cannot be read is replaced by a new one, for this run.
KeyMissingGenerates(p) ==
    /\ proc[p].at = "loaded" /\ disk[KeyFile(p)].kind # "key"
    /\ \E secret \in Fresh :
          proc' = [proc EXCEPT ![p] = [at |-> "running", path |-> @.path,
                                       public |-> @.public, keypair |-> KeyPair(secret)]]
    /\ UNCHANGED <<disk, drawn>>

\* The check for "No private key in config" is lost.
KeyMissingIgnored(p) ==
    /\ proc[p].at = "loaded" /\ disk[KeyFile(p)].kind # "key"
    /\ proc' = [proc EXCEPT ![p].at = "running"]
    /\ UNCHANGED <<disk, drawn>>

\* Key pairs are derived from something two configurations may share.
GenerateSeeded(p, path, secret) ==
    /\ proc[p] = Quiet
    /\ disk' = [disk EXCEPT ![path] = Empty]
    /\ drawn' = [drawn EXCEPT ![path] = @ \cup {secret}]
    /\ proc' = [proc EXCEPT ![p] = [at |-> "config", path |-> path, secret |-> secret]]

-----------------------------------------------------------------------------
(* meshvpn generate.                                                       *)

\* A new key pair; save() opens the configuration file, which empties it,
\* whatever it held.
Generate(p, path, secret) ==
    /\ proc[p] = Quiet /\ secret \in Fresh
    /\ disk' = [disk EXCEPT ![path] = Empty]
    /\ drawn' = [drawn EXCEPT ![path] = @ \cup {secret}]
    /\ proc' = [proc EXCEPT ![p] = [at |-> "config", path |-> path, secret |-> secret]]

WriteConfig(p) ==
    /\ proc[p].at = "config"
    /\ disk' = [disk EXCEPT ![proc[p].path] = Saved(proc[p].secret)]
    /\ proc' = [proc EXCEPT ![p].at = "saved"]
    /\ UNCHANGED drawn

OpenKey(p) ==
    /\ proc[p].at = "saved"
    /\ disk' = [disk EXCEPT ![KeyFile(p)] = Empty]
    /\ proc' = [proc EXCEPT ![p].at = "key"]
    /\ UNCHANGED drawn

WriteKey(p) ==
    /\ proc[p].at = "key"
    /\ disk' = [disk EXCEPT ![KeyFile(p)] = [kind |-> "key", secret |-> proc[p].secret]]
    /\ proc' = [proc EXCEPT ![p] = Quiet]
    /\ UNCHANGED drawn

\* The process dies, or a write fails and `?` ends it.
GenerateDies(p) ==
    /\ proc[p].at \in {"config", "saved", "key"}
    /\ proc' = [proc EXCEPT ![p] = Quiet]
    /\ UNCHANGED <<disk, drawn>>

-----------------------------------------------------------------------------
(* meshvpn start.                                                          *)

\* Config::load(); a file that is absent or does not parse ends the command.
Load(p, path) ==
    /\ proc[p] = Quiet /\ disk[path].kind = "config"
    /\ proc' = [proc EXCEPT ![p] = [at |-> "loaded", path |-> path,
                                    public |-> disk[path].public]]
    /\ UNCHANGED <<disk, drawn>>

\* The node makes its key pair of the private key in the key file and never
\* compares it with the public key it has loaded.
LoadKey(p) ==
    /\ proc[p].at = "loaded" /\ disk[KeyFile(p)].kind = "key"
    /\ proc' = [proc EXCEPT ![p] = [at |-> "running", path |-> @.path,
                                    public |-> @.public,
                                    keypair |-> KeyPair(disk[KeyFile(p)].secret)]]
    /\ UNCHANGED <<disk, drawn>>

\* Without a key file there is "No private key in config"; what is no key of 32
\* bytes in hexadecimal is an error, and an empty file a panic.
KeyMissing(p) ==
    /\ proc[p].at = "loaded" /\ disk[KeyFile(p)].kind # "key"
    /\ proc' = [proc EXCEPT ![p] = Quiet]
    /\ UNCHANGED <<disk, drawn>>

\* Ctrl+C, or the process dies.
NodeEnds(p) ==
    /\ proc[p].at \in {"loaded", "running"}
    /\ proc' = [proc EXCEPT ![p] = Quiet]
    /\ UNCHANGED <<disk, drawn>>

-----------------------------------------------------------------------------
IdNext ==
    \E p \in Procs :
        \/ \E path \in Paths :
              Load(p, path) \/ \E secret \in SecretKeys : Generate(p, path, secret)
        \/ WriteConfig(p) \/ OpenKey(p) \/ WriteKey(p) \/ GenerateDies(p)
        \/ LoadKey(p) \/ KeyMissing(p) \/ NodeEnds(p)

IdSpec == IdInit /\ [][IdNext]_idVars

-----------------------------------------------------------------------------
\* The types of the variables, and no process runs a node without both keys.
IdTypeOK ==
    /\ disk \in [Files -> Content]
    /\ proc \in [Procs -> Proc]
    /\ drawn \in [Paths -> SUBSET SecretKeys]

\* A node runs with a public and a private key that were both generated for its
\* configuration, so when generate ran there once they match: whatever died in
\* the middle, and whatever another process was writing meanwhile.  Run twice, it
\* may leave a configuration with one key and a key file with another, and start
\* does not compare them.
IdentityMatches ==
    \A p \in Procs : proc[p].at = "running" =>
        LET own == drawn[proc[p].path] IN
        /\ proc[p].public \in Publics(own) /\ proc[p].keypair.secret \in own
        /\ (\A j, k \in own : j = k) => proc[p].public = proc[p].keypair.public

\* Nodes started from different configurations share neither a public nor a
\* private key, and neither has the other's private key to its public one.
IdentitiesDiffer ==
    \A p, q \in Procs :
        proc[p].at = "running" /\ proc[q].at = "running" /\ proc[p].path # proc[q].path
            => /\ {proc[p].public, proc[p].keypair.public}
                     \cap {proc[q].public, proc[q].keypair.public} = {}
               /\ proc[p].keypair.secret # proc[q].keypair.secret

-----------------------------------------------------------------------------
(* Why it holds: the parts of the inductive invariant.                     *)

\* What both properties need: no two configurations share a key file, and no
\* configuration is another's key file.
KeyFilesApart ==
    /\ \A path, other \in Paths : path # other => KeyPath[path] # KeyPath[other]
    /\ \A path \in Paths : KeyPath[path] \notin Paths

\* Each secret key was drawn for one path only.
DrawnApart == \A path, other \in Paths : path # other => drawn[path] \cap drawn[other] = {}

\* Whatever a configuration file or its key file holds was drawn for its path.
FilesOwn ==
    \A path \in Paths :
        /\ disk[path].kind \in {"absent", "empty", "config"}
        /\ disk[path].kind = "config" =>
              disk[path].public \in Publics(drawn[path])
        /\ disk[KeyPath[path]].kind = "key" => disk[KeyPath[path]].secret \in drawn[path]

\* So was whatever a process holds.
HeldOwn ==
    \A p \in Procs :
        /\ proc[p].at \in {"config", "saved", "key"} =>
              proc[p].secret \in drawn[proc[p].path]
        /\ proc[p].at = "loaded" => proc[p].public \in Publics(drawn[proc[p].path])
        /\ proc[p].at = "running" =>
              /\ proc[p].public \in Publics(drawn[proc[p].path])
              /\ proc[p].keypair.secret \in drawn[proc[p].path]
              /\ proc[p].keypair = KeyPair(proc[p].keypair.secret)

IdInv == IdTypeOK /\ DrawnApart /\ FilesOwn /\ HeldOwn
=============================================================================
