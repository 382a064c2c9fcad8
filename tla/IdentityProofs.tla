--------------------------- MODULE IdentityProofs ---------------------------
(* Proofs about Identity, for any processes, paths and keys. *)
EXTENDS Identity, TLAPS

\* What a process holds at each stage.
LEMMA ProcCases ==
    ASSUME NEW r \in Proc
    PROVE  /\ r.at \in {"none", "config", "saved", "key", "loaded", "running"}
           /\ r = Quiet <=> r.at = "none"
           /\ r.at # "none" => r.path \in Paths
           /\ r.at \in {"config", "saved", "key"} => r.secret \in SecretKeys
           /\ r.at \in {"loaded", "running"} => r.public \in PublicKeys
           /\ r.at = "config" => [r EXCEPT !.at = "saved"] \in Proc
           /\ r.at = "saved" => [r EXCEPT !.at = "key"] \in Proc
BY DEF Proc, Quiet

\* What a file that is read holds.
LEMMA ContentCases ==
    ASSUME NEW c \in Content
    PROVE  /\ c.kind \in {"absent", "empty", "config", "key"}
           /\ c.kind = "config" => c.public \in PublicKeys
           /\ c.kind = "key" => c.secret \in SecretKeys
BY DEF Content, Absent, Empty

LEMMA IdInvInit == IdInit => IdInv
<1> SUFFICES ASSUME IdInit PROVE IdInv
  OBVIOUS
<1>1. IdTypeOK
  BY DEF IdInit, IdTypeOK, Content, Proc
<1>2. DrawnApart /\ FilesOwn /\ HeldOwn
  BY PathsAssumption DEF IdInit, DrawnApart, FilesOwn, HeldOwn, Absent, Quiet
<1>3. QED
  BY <1>1, <1>2 DEF IdInv

\* Everything a command does keeps IdInv, when no key file is shared.
LEMMA IdInvNext ==
    ASSUME KeyFilesApart, IdInv, [IdNext]_idVars
    PROVE  IdInv'
<1> USE PathsAssumption
<1>t. IdTypeOK /\ DrawnApart /\ FilesOwn /\ HeldOwn
  BY DEF IdInv
<1>d. ASSUME UNCHANGED idVars PROVE IdInv'
  BY <1>t, <1>d DEF idVars, IdInv, IdTypeOK, DrawnApart, FilesOwn, HeldOwn, KeyFile
<1>1. ASSUME NEW p \in Procs, NEW path \in Paths, NEW secret \in SecretKeys,
             Generate(p, path, secret)
      PROVE  IdInv'
  <2>1. IdTypeOK'
    BY <1>t, <1>1 DEF Generate, IdTypeOK, Content, Proc, Empty
  <2>2. DrawnApart'
    BY <1>t, <1>1 DEF Generate, IdTypeOK, DrawnApart, Fresh
  <2>3. \A other \in Paths : drawn[other] \subseteq drawn'[other]
    BY <1>t, <1>1 DEF Generate, IdTypeOK
  <2>4. FilesOwn'
    <3> SUFFICES ASSUME NEW other \in Paths
                 PROVE  /\ disk'[other].kind \in {"absent", "empty", "config"}
                        /\ disk'[other].kind = "config" =>
                              disk'[other].public \in Publics(drawn'[other])
                        /\ disk'[KeyPath[other]].kind = "key" =>
                              disk'[KeyPath[other]].secret \in drawn'[other]
      BY DEF FilesOwn
    <3>1. disk'[path] = Empty /\ \A f \in Files \ {path} : disk'[f] = disk[f]
      BY <1>t, <1>1 DEF Generate, IdTypeOK
    <3>2. KeyPath[other] # path
      BY DEF KeyFilesApart
    <3>3. QED
      BY <1>t, <2>3, <3>1, <3>2 DEF FilesOwn, Publics, Empty
  <2>5. HeldOwn'
    <3>1. proc' = [proc EXCEPT ![p] = [at |-> "config", path |-> path, secret |-> secret]]
      BY <1>1 DEF Generate
    <3>2. secret \in drawn'[path]
      BY <1>t, <1>1 DEF Generate, IdTypeOK
    <3>3. \A q \in Procs : q # p => proc'[q] = proc[q] /\ proc[q] \in Proc
      BY <1>t, <3>1 DEF IdTypeOK
    <3>4. \A q \in Procs : proc[q].at # "none" => proc[q].path \in Paths
      BY <1>t, ProcCases DEF IdTypeOK
    <3>5. proc'[p] = [at |-> "config", path |-> path, secret |-> secret]
      BY <1>t, <3>1 DEF IdTypeOK
    <3>6. QED
      BY <1>t, <2>3, <3>2, <3>3, <3>4, <3>5 DEF HeldOwn, Publics
  <2>6. QED
    BY <2>1, <2>2, <2>4, <2>5 DEF IdInv
<1>2. ASSUME NEW p \in Procs, WriteConfig(p) PROVE IdInv'
  <2>1. proc[p] \in Proc /\ proc[p].path \in Paths /\ proc[p].secret \in drawn[proc[p].path]
    BY <1>t, <1>2, ProcCases DEF WriteConfig, IdTypeOK, HeldOwn
  <2>2. IdTypeOK'
    <3>1. [proc[p] EXCEPT !.at = "saved"] \in Proc /\ proc[p].secret \in SecretKeys
      BY <1>2, <2>1, ProcCases DEF WriteConfig
    <3>2. QED
      BY <1>t, <1>2, <2>1, <3>1 DEF WriteConfig, IdTypeOK, Content, Saved, PublicKeys, Publics
  <2>3. FilesOwn'
    BY <1>t, <1>2, <2>1 DEF WriteConfig, IdTypeOK, FilesOwn, KeyFilesApart, Saved, Publics
  <2>4. HeldOwn'
    BY <1>t, <1>2, <2>1 DEF WriteConfig, IdTypeOK, HeldOwn, Proc, Quiet
  <2>5. QED
    BY <1>t, <1>2, <2>2, <2>3, <2>4 DEF WriteConfig, IdInv, DrawnApart
<1>3. ASSUME NEW p \in Procs, OpenKey(p) PROVE IdInv'
  <2>1. proc[p] \in Proc /\ proc[p].path \in Paths
    BY <1>t, <1>3, ProcCases DEF OpenKey, IdTypeOK
  <2>2. IdTypeOK'
    <3>1. [proc[p] EXCEPT !.at = "key"] \in Proc
      BY <1>3, <2>1, ProcCases DEF OpenKey
    <3>2. QED
      BY <1>t, <1>3, <2>1, <3>1 DEF OpenKey, IdTypeOK, Content
  <2>3. FilesOwn'
    BY <1>t, <1>3, <2>1 DEF OpenKey, IdTypeOK, FilesOwn, KeyFilesApart, KeyFile, Empty
  <2>4. HeldOwn'
    BY <1>t, <1>3, <2>1 DEF OpenKey, IdTypeOK, HeldOwn, Proc, Quiet
  <2>5. QED
    BY <1>t, <1>3, <2>2, <2>3, <2>4 DEF OpenKey, IdInv, DrawnApart
<1>4. ASSUME NEW p \in Procs, WriteKey(p) PROVE IdInv'
  <2>1. proc[p] \in Proc /\ proc[p].path \in Paths /\ proc[p].secret \in drawn[proc[p].path]
    BY <1>t, <1>4, ProcCases DEF WriteKey, IdTypeOK, HeldOwn
  <2>2. IdTypeOK'
    <3>1. proc[p].secret \in SecretKeys
      BY <1>4, <2>1, ProcCases DEF WriteKey
    <3>2. QED
      BY <1>t, <1>4, <2>1, <3>1 DEF WriteKey, IdTypeOK, Content, Proc
  <2>3. FilesOwn'
    <3> DEFINE file == KeyPath[proc[p].path]
    <3>1. /\ disk'[file] = [kind |-> "key", secret |-> proc[p].secret]
          /\ \A f \in Files \ {file} : disk'[f] = disk[f]
          /\ drawn' = drawn
      BY <1>t, <1>4, <2>1 DEF WriteKey, IdTypeOK, KeyFile
    <3>2. \A other \in Paths : other # file
      BY <2>1 DEF KeyFilesApart
    <3>3. \A other \in Paths : KeyPath[other] = file => other = proc[p].path
      BY <2>1 DEF KeyFilesApart
    <3>4. QED
      BY <1>t, <2>1, <3>1, <3>2, <3>3 DEF FilesOwn
  <2>4. HeldOwn'
    BY <1>t, <1>4, <2>1 DEF WriteKey, IdTypeOK, HeldOwn, Quiet
  <2>5. QED
    BY <1>t, <1>4, <2>2, <2>3, <2>4 DEF WriteKey, IdInv, DrawnApart
<1>5. ASSUME NEW p \in Procs, NEW path \in Paths, Load(p, path) PROVE IdInv'
  <2>1. disk[path] \in Content /\ disk[path].public \in Publics(drawn[path])
    BY <1>t, <1>5 DEF Load, IdTypeOK, FilesOwn
  <2>2. IdTypeOK'
    <3>1. disk[path].public \in PublicKeys
      BY <1>5, <2>1, ContentCases DEF Load
    <3>2. QED
      BY <1>t, <1>5, <3>1 DEF Load, IdTypeOK, Proc
  <2>3. HeldOwn'
    BY <1>t, <1>5, <2>1 DEF Load, IdTypeOK, HeldOwn
  <2>4. QED
    BY <1>t, <1>5, <2>2, <2>3 DEF Load, IdInv, DrawnApart, FilesOwn
<1>6. ASSUME NEW p \in Procs, LoadKey(p) PROVE IdInv'
  <2>1. proc[p] \in Proc /\ proc[p].path \in Paths
        /\ proc[p].public \in PublicKeys
        /\ proc[p].public \in Publics(drawn[proc[p].path])
    BY <1>t, <1>6, ProcCases DEF LoadKey, IdTypeOK, HeldOwn
  <2>2. disk[KeyFile(p)] \in Content /\ disk[KeyFile(p)].secret \in drawn[proc[p].path]
    BY <1>t, <1>6, <2>1 DEF LoadKey, IdTypeOK, FilesOwn, KeyFile
  <2>3. IdTypeOK'
    <3>1. disk[KeyFile(p)].secret \in SecretKeys
      BY <1>6, <2>2, ContentCases DEF LoadKey
    <3>2. QED
      BY <1>t, <1>6, <2>1, <3>1 DEF LoadKey, IdTypeOK, Proc
  <2>4. HeldOwn'
    BY <1>t, <1>6, <2>1, <2>2 DEF LoadKey, IdTypeOK, HeldOwn, KeyPair
  <2>5. QED
    BY <1>t, <1>6, <2>3, <2>4 DEF LoadKey, IdInv, DrawnApart, FilesOwn
<1>7. ASSUME NEW p \in Procs, GenerateDies(p) \/ KeyMissing(p) \/ NodeEnds(p)
      PROVE  IdInv'
  <2>1. proc' = [proc EXCEPT ![p] = Quiet] /\ UNCHANGED <<disk, drawn>>
    BY <1>7 DEF GenerateDies, KeyMissing, NodeEnds
  <2>2. IdTypeOK'
    BY <1>t, <2>1 DEF IdTypeOK, Proc
  <2>3. HeldOwn'
    BY <1>t, <2>1 DEF IdTypeOK, HeldOwn, Quiet
  <2>4. QED
    BY <1>t, <2>1, <2>2, <2>3 DEF IdInv, DrawnApart, FilesOwn
<1>8. QED
  BY <1>d, <1>1, <1>2, <1>3, <1>4, <1>5, <1>6, <1>7 DEF IdNext

-----------------------------------------------------------------------------
\* The variables keep their types (main.rs, generate and start).
THEOREM IdTypeCorrect == ASSUME KeyFilesApart PROVE IdSpec => []IdTypeOK
<1>1. IdInv => IdTypeOK
  BY DEF IdInv
<1>2. KeyFilesApart /\ IdInv /\ [IdNext]_idVars => IdInv'
  BY IdInvNext
<1>3. QED
  BY IdInvInit, <1>1, <1>2, PTL DEF IdSpec

\* A node's public and private key (Commands::Start) were both generated for the
\* configuration it was started with, and match if generate ran there once, for
\* any number of processes, configurations and generations.
THEOREM KeysAreOwn == ASSUME KeyFilesApart PROVE IdSpec => []IdentityMatches
<1>1. ASSUME IdInv PROVE IdentityMatches
  <2> SUFFICES ASSUME NEW p \in Procs, proc[p].at = "running"
               PROVE  LET own == drawn[proc[p].path] IN
                      /\ proc[p].public \in Publics(own)
                      /\ proc[p].keypair.secret \in own
                      /\ (\A j, k \in own : j = k) =>
                            proc[p].public = proc[p].keypair.public
    BY DEF IdentityMatches
  <2> DEFINE own == drawn[proc[p].path]
  <2>1. /\ proc[p].public \in Publics(own) /\ proc[p].keypair.secret \in own
        /\ proc[p].keypair = KeyPair(proc[p].keypair.secret)
    BY <1>1 DEF IdInv, HeldOwn
  <2>2. PICK secret \in own : proc[p].public = PublicKey(secret)
    BY <2>1 DEF Publics
  <2>3. proc[p].keypair.public = PublicKey(proc[p].keypair.secret)
    BY <2>1 DEF KeyPair
  <2>4. QED
    BY <2>1, <2>2, <2>3
<1>2. KeyFilesApart /\ IdInv /\ [IdNext]_idVars => IdInv'
  BY IdInvNext
<1>3. QED
  BY IdInvInit, <1>1, <1>2, PTL DEF IdSpec

\* Nodes started from two configurations share no key.
THEOREM KeysAreApart == ASSUME KeyFilesApart PROVE IdSpec => []IdentitiesDiffer
<1>1. ASSUME IdInv PROVE IdentitiesDiffer
  <2>1. \A p \in Procs : proc[p].at = "running" => proc[p].path \in Paths
    BY <1>1, ProcCases DEF IdInv, IdTypeOK
  <2>2. ASSUME NEW p \in Procs, NEW q \in Procs, proc[p].at = "running",
               proc[q].at = "running", proc[p].path # proc[q].path
        PROVE  /\ {proc[p].public, proc[p].keypair.public}
                     \cap {proc[q].public, proc[q].keypair.public} = {}
               /\ proc[p].keypair.secret # proc[q].keypair.secret
    <3>1. \A r \in {p, q} :
             /\ \E secret \in drawn[proc[r].path] : proc[r].public = PublicKey(secret)
             /\ proc[r].keypair.secret \in drawn[proc[r].path]
             /\ proc[r].keypair.public = PublicKey(proc[r].keypair.secret)
      <4> SUFFICES ASSUME NEW r \in {p, q}
                   PROVE  /\ \E secret \in drawn[proc[r].path] :
                                 proc[r].public = PublicKey(secret)
                          /\ proc[r].keypair.secret \in drawn[proc[r].path]
                          /\ proc[r].keypair.public = PublicKey(proc[r].keypair.secret)
        OBVIOUS
      <4>1. /\ proc[r].public \in Publics(drawn[proc[r].path])
            /\ proc[r].keypair.secret \in drawn[proc[r].path]
            /\ proc[r].keypair = KeyPair(proc[r].keypair.secret)
        BY <1>1, <2>2 DEF IdInv, HeldOwn
      <4>2. KeyPair(proc[r].keypair.secret).public = PublicKey(proc[r].keypair.secret)
        BY DEF KeyPair
      <4>3. QED
        BY <4>1, <4>2 DEF Publics
    <3>2. drawn[proc[p].path] \cap drawn[proc[q].path] = {}
      BY <1>1, <2>1, <2>2 DEF IdInv, DrawnApart
    <3>3. \A s, t : PublicKey(s) = PublicKey(t) => s = t
      BY DEF PublicKey
    <3>4. QED
      BY <3>1, <3>2, <3>3
  <2>3. QED
    BY <2>2 DEF IdentitiesDiffer
<1>2. KeyFilesApart /\ IdInv /\ [IdNext]_idVars => IdInv'
  BY IdInvNext
<1>3. QED
  BY IdInvInit, <1>1, <1>2, PTL DEF IdSpec
=============================================================================
