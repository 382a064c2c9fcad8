--------------------------------- MODULE Ice ---------------------------------
(***************************************************************************)
(* What src/src/nat/ice.rs computes of candidates: their priorities and    *)
(* the choice among the remote ones; and how SdpMessage of                 *)
(* src/src/signaling/client.rs writes and reads an offer; and the base64   *)
(* in which an agent names itself.                                         *)
(***************************************************************************)
EXTENDS Naturals, Sequences, SequencesExt, Retain

CandidateTypes == {"Host", "Srflx", "Prflx", "Relay"}

TypePreference == [Host |-> 126, Srflx |-> 100, Prflx |-> 110, Relay |-> 0]

\* The three parts do not overlap, for a preference below 2^16 and a component
\* of 1 to 256.
CalculatePriority(type, preference, component) ==
    TypePreference[type] * 2^24 + preference * 2^8 + (256 - component)

Candidate(type, address, preference) ==
    [candidateType |-> type, connectionAddress |-> address,
     priority |-> CalculatePriority(type, preference, 1)]

\* A candidate whose type can be told from its priority.
Preferences == 0..(2^16 - 1)
Makes(type, priority) ==
    \E preference \in Preferences : priority = CalculatePriority(type, preference, 1)
IsMade(c) == c.candidateType \in CandidateTypes /\ Makes(c.candidateType, c.priority)

NewHost(address) == Candidate("Host", address, 65535)
NewSrflx(address, basePriority) == Candidate("Srflx", address, basePriority)
NewRelay(address) == Candidate("Relay", address, 65535)

-----------------------------------------------------------------------------
(* select_best_candidate().                                                *)

NoCandidate == [says |-> "None"]
IsHost(c) == c.candidateType = "Host"
NotHost(candidates) == {c \in Range(candidates) : ~IsHost(c)}
OfType(c, candidates) ==
    Only(candidates, {r \in Range(candidates) : r.candidateType = c.candidateType})

\* sort_by(), which is stable: a candidate comes behind those that were before it
\* and have at least its priority.
Inserted(sorted, c) ==
    LET first == {d \in Range(sorted) : d.priority >= c.priority}
    IN Only(sorted, first) \o <<c>> \o Only(sorted, Range(sorted) \ first)
ByPriority(candidates) ==
    LET sorted[n \in 0..Len(candidates)] ==
            IF n = 0 THEN <<>> ELSE Inserted(sorted[n - 1], candidates[n])
    IN sorted[Len(candidates)]

\* The first remote candidate of the type of the first of `local` that has one.
FirstMatch(local, remote) ==
    LET matching == Only(local, {c \in Range(local) : OfType(c, remote) # <<>>})
    IN IF matching # <<>> THEN Head(OfType(Head(matching), remote))
       ELSE IF remote # <<>> THEN Head(remote)
       ELSE NoCandidate

\* Mutated form, which the specification does not use: candidates are tried in
\* the order in which they were added.
SelectBestUnsorted(local, remote) == FirstMatch(Only(local, NotHost(local)), remote)

\* The local candidates other than host ones are tried by their priority.
SelectBestCandidate(local, remote) ==
    FirstMatch(ByPriority(Only(local, NotHost(local))), remote)

\* What the choice comes to: of the types both sides have, host aside, the
\* preferred one, whatever the order in which the candidates were added; with
\* none in common whatever the other side named first.
IsBest(best, local, remote) ==
    LET typesOf(cs) == {cs[i].candidateType : i \in 1..Len(cs)} \ {"Host"}
        shared == typesOf(local) \cap typesOf(remote)
    IN IF remote = <<>> THEN best = NoCandidate
       ELSE IF shared = {} THEN best = remote[1]
       ELSE /\ \A t \in shared : TypePreference[t] <= TypePreference[best.candidateType]
            /\ best.candidateType \in shared
            /\ \E i \in 1..Len(remote) :
                  /\ remote[i] = best
                  /\ \A j \in 1..(i - 1) : remote[j].candidateType # best.candidateType

-----------------------------------------------------------------------------
(* base64_encode(): a digit is its place in the alphabet, padding comes    *)
(* behind the last.                                                        *)

Padding == 64
ByteAt(data, k) == IF k <= Len(data) THEN data[k] ELSE 0

\* Digit d: the 3 bytes of a chunk, missing ones being 0, are 4 digits, and those
\* that hold no bit of a byte there is are padding.
Base64Digit(data, d) ==
    LET k == 3 * ((d - 1) \div 4) + 1 IN
    CASE d % 4 = 1 -> data[k] \div 4
      [] d % 4 = 2 -> (data[k] % 4) * 16 + ByteAt(data, k + 1) \div 16
      [] d % 4 = 3 -> IF k + 1 > Len(data) THEN Padding
                      ELSE (data[k + 1] % 16) * 4 + ByteAt(data, k + 2) \div 64
      [] d % 4 = 0 -> IF k + 2 > Len(data) THEN Padding ELSE data[k + 2] % 64

Base64Encode(data) ==
    [d \in 1..(4 * ((Len(data) + 2) \div 3)) |-> Base64Digit(data, d)]

\* What base64 is: the digits that are no padding, read as one number of 6 bits
\* each, are the bytes, read as one of 8 bits each, and bits that are 0.
Bit(number, b) == (number \div 2^b) % 2
IsBase64(digits, data) ==
    LET used == Only(digits, 0..(Padding - 1)) IN
    /\ Len(digits) % 4 = 0 /\ IsPrefix(used, digits)
    /\ Len(digits) - Len(used) = (3 - (Len(data) % 3)) % 3
    /\ \A b \in 0..(6 * Len(used) - 1) :
          Bit(used[b \div 6 + 1], 5 - (b % 6)) =
              IF b < 8 * Len(data) THEN Bit(data[b \div 8 + 1], 7 - (b % 8)) ELSE 0

IceCredentials(drawn) == <<Base64Encode(drawn.username), Base64Encode(drawn.password)>>

-----------------------------------------------------------------------------
(* SdpMessage.                                                             *)

NewOffer(candidates, credentials) ==
    [sdpType |-> "Offer", candidates |-> candidates, credentials |-> credentials]

ToJson(m) ==
    [type |-> IF m.sdpType = "Offer" THEN "offer" ELSE "answer",
     candidates |-> m.candidates, ufrag |-> m.credentials[1], password |-> m.credentials[2]]

\* The error of a type that is neither.
InvalidSdpType == [sdpType |-> "Invalid"]

FromJson(json) ==
    IF json.type \notin {"offer", "answer"} THEN InvalidSdpType
    ELSE [sdpType |-> IF json.type = "offer" THEN "Offer" ELSE "Answer",
          candidates |-> json.candidates, credentials |-> <<json.ufrag, json.password>>]
=============================================================================
