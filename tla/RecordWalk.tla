----------------------------- MODULE RecordWalk -----------------------------
(***************************************************************************)
(* The loops that walk a buffer of records the driver did not write:       *)
(* parseFirmware and selectBoard over a firmware container (FW.cpp),       *)
(* tlvParse under parseServiceReady and parseReady over a WMI event        *)
(* (WMI.cpp), applyCreditReport over an HTC trailer (HTC.cpp).  All have   *)
(* one shape: a header gives the record's id and length, the length is     *)
(* checked against the rest of the buffer, the record is used, the walk    *)
(* goes on behind it and its padding.  They differ in the header, the      *)
(* padding, and in what an odd end means.                                  *)
(*                                                                         *)
(* A buffer is the list of records laid out in it and the number of its    *)
(* bytes; one that ends before its records do was cut short.  The magic of *)
(* a container is not part of it, its comparison is left out.              *)
(***************************************************************************)
EXTENDS Integers, Sequences, FiniteSetsExt, SequencesExt

CONSTANTS
  WordMod,              \* 32-bit lengths wrap here: 2^32, smaller for TLC
  SvcEvSize, RdyEvSize, \* bytes the two event structs must have: 76 and 36
  VersionSize,          \* sizeof(out->version): 64
  Records, MaxRecs      \* inputs: per walk, the records of a buffer; how many at most

Walks      == {"fw", "board", "svc", "rdy", "credit"}
Containers == {"fw", "board"}

(* A record: its id, the length its header declares, the bytes it takes    *)
(* (they differ in a corrupt record only), whose board name or that a list *)
(* of records is in it, the list, and for a credit record the credits each *)
(* of its entries gives our endpoint.  FW.hpp numbers a board's outer IE   *)
(* and the board name alike, so both have the tag "name".                  *)
Record == [tag : STRING, len : Nat, size : Nat, holds : STRING,
           inner : Seq(STRING), grants : Seq(Nat)]
ASSUME SizeAssumption ==
  /\ {WordMod, SvcEvSize, RdyEvSize, VersionSize, MaxRecs} \subseteq Nat
  /\ \A w \in Walks : Records[w] \subseteq Record
  /\ \A rec \in Records["credit"] : rec.tag = "credits" => rec.len \div 4 <= Len(rec.grants)
Rec(tag, len) == [tag |-> tag, len |-> len, size |-> len, holds |-> "bytes",
                  inner |-> <<>>, grants |-> <<>>]
NoSlice == [at |-> 0, len |-> -1]
Tags    == {"image", "otp", "version", "event", "array"}

VARIABLES
  walk, recs, total,  \* the call: which walk, over which buffer
  pos, status,        \* data - buffer; walking, ended, and the result
  tb,                 \* last record seen of a tag: out->firmware, otp, version; tb[]
  nameMatch, found,   \* selectBoard: nameMatch; *outData, *outLen
  fWmiCredits         \* applyCreditReport: credits added
call     == <<walk, recs, total>>
walkVars == <<call, pos, status, tb, nameMatch, found, fWmiCredits>>

(* The layout the writer of the buffer used (FW.hpp, htc.h, wmi-tlv.h):    *)
(* where its records start, and one more for the end.                      *)
Layout(w) == [hdr |-> IF w \in Containers THEN 8 ELSE 4,
              align |-> IF w \in Containers THEN 4 ELSE 1]
Stride(rec, w) ==
  LET a == Layout(w).align
  IN Layout(w).hdr + ((rec.size + a - 1) \div a) * a
Starts(rs, w) ==
  LET st[i \in 1 .. Len(rs) + 1] ==
        IF i = 1 THEN 0 ELSE st[i - 1] + Stride(rs[i - 1], w)
  IN st
At == Starts(recs, walk)
EndOf(i) == At[i] + Layout(walk).hdr + recs[i].len

(* The number of bytes is itself 32 bits.  What a corrupt header declares  *)
(* is more than there is: one that declares less makes other records of    *)
(* its bytes, and is in the list as those.                                 *)
WalkInit ==
  /\ walk \in Walks /\ recs \in SeqOf(Records[walk], MaxRecs)
  /\ total \in 0 .. At[Len(recs) + 1] /\ total < WordMod
  /\ \A i \in DOMAIN recs : recs[i].len # recs[i].size => EndOf(i) > total
  /\ pos = 0 /\ status = "walking"
  /\ tb = [t \in Tags |-> NoSlice] /\ nameMatch = FALSE /\ found = NoSlice
  /\ fWmiCredits = 0

(* What the code reads at pos; inside a record it would be payload. *)
HeaderAtPos ==
  LET S == {i \in DOMAIN recs : At[i] = pos}
  IN IF S = {} THEN Rec("payload", 0) ELSE recs[CHOOSE i \in S : TRUE]

-----------------------------------------------------------------------------
(* Mutants: the container's last, empty IE overlooked (the code's own old  *)
(* bug); padding of odd records forgotten.                                 *)
HdrNeedOld(w) == IF w \in Containers THEN 9 ELSE IF w = "credit" THEN 2 ELSE 4
PadNone(len, w) == len

(* Bytes that must be left for the walk to look at a header, and the bytes *)
(* it then steps over: applyCreditReport looks at 2 and steps over 4.      *)
HdrNeed(w) == IF w \in Containers THEN 8 ELSE IF w = "credit" THEN 2 ELSE 4
HdrSize(w) == IF w \in Containers THEN 8 ELSE 4

(* (ieLen + 3) & ~3 in 32 bits; TLVs and credit records are not padded. *)
Pad(len, w) == IF w \in Containers THEN (((len + 3) % WordMod) \div 4) * 4 ELSE len

(* Mutant: the walk does not step over the header. *)
BodyAtHeader == pos

Rest == total - pos
Body == pos + HdrSize(walk)
Walking == status = "walking" /\ Rest >= HdrNeed(walk)

(* Mutant: the end of the record computed in 32 bits. *)
FitsWrapped(len) == (Body + len) % WordMod <= total

Fits(len) == Body + len <= total

(* The end of the loop: tlvParse rejects one to three bytes left over. *)
WalkOut ==
  /\ status = "walking" /\ Rest < HdrNeed(walk)
  /\ status' = IF walk \in {"svc", "rdy"} /\ Rest > 0 THEN "bad" ELSE "ended"
  /\ UNCHANGED <<call, pos, tb, nameMatch, found, fWmiCredits>>

(* A record longer than the rest: selectBoard and applyCreditReport just   *)
(* stop, the others reject the buffer.                                     *)
Overlong ==
  /\ Walking /\ ~Fits(HeaderAtPos.len)
  /\ status' = IF walk \in {"board", "credit"} THEN "ended" ELSE "bad"
  /\ UNCHANGED <<call, pos, tb, nameMatch, found, fWmiCredits>>

(* Behind the record and its padding, unless the padding is cut off. *)
Advance ==
  LET pad == Pad(HeaderAtPos.len, walk) IN
  IF pad > total - Body
  THEN status' = "ended" /\ UNCHANGED pos
  ELSE pos' = Body + pad /\ UNCHANGED status

(* Records remembered: a version that leaves no room for its NUL is not. *)
Kept(rec) == rec.tag \in Tags /\ (rec.tag = "version" => rec.len < VersionSize - 1)

(* parseFirmware, tlvParse: remember where the record is, the last one of  *)
(* a tag wins; ids without a use are skipped.                              *)
UseSlice ==
  /\ walk \in {"fw", "svc", "rdy"} /\ Walking /\ Fits(HeaderAtPos.len)
  /\ tb' = IF Kept(HeaderAtPos)
           THEN [tb EXCEPT ![HeaderAtPos.tag] = [at |-> Body, len |-> HeaderAtPos.len]]
           ELSE tb
  /\ Advance /\ UNCHANGED <<call, nameMatch, found, fWmiCredits>>

(* Mutant: a name that does not match leaves an earlier match standing. *)
NameMatchSticky(rec) == nameMatch \/ (rec.tag = "name" /\ rec.holds = "mine")

NameMatch(rec) == IF rec.tag = "name" THEN rec.holds = "mine" ELSE nameMatch

(* selectBoard: the first board data under a matching name is the result. *)
UseBoardIe ==
  /\ walk = "board" /\ Walking /\ Fits(HeaderAtPos.len)
  /\ IF HeaderAtPos.tag = "data" /\ nameMatch
     THEN /\ found' = [at |-> Body, len |-> HeaderAtPos.len]
          /\ status' = "ok" /\ UNCHANGED <<pos, nameMatch>>
     ELSE nameMatch' = NameMatch(HeaderAtPos) /\ Advance /\ UNCHANGED found
  /\ UNCHANGED <<call, tb, fWmiCredits>>

(* f[1] + ... + f[n] *)
SumTo(f, n) == LET s[k \in 0 .. n] == IF k = 0 THEN 0 ELSE s[k - 1] + f[k]
               IN s[n]

(* Mutant: an entry that the record's length cuts off counted too. *)
EntriesAny(rec) == Len(rec.grants)

Entries(rec) == rec.len \div 4

(* applyCreditReport: every whole entry of a credit record. *)
Granted(rec) ==
  IF rec.tag # "credits" THEN 0 ELSE SumTo(rec.grants, Entries(rec))
UseCredits ==
  /\ walk = "credit" /\ Walking /\ Fits(HeaderAtPos.len)
  /\ fWmiCredits' = fWmiCredits + Granted(HeaderAtPos)
  /\ Advance /\ UNCHANGED <<call, tb, nameMatch, found>>

(* What the caller of the loop makes of it: a firmware image that is not   *)
(* empty; an event struct that is long enough and, for SERVICE_READY, a    *)
(* bitmap of whole words; no board data found.                             *)
Verdict ==
  CASE walk = "fw"    -> tb["image"].len > 0
    [] walk = "board" -> FALSE
    [] walk = "svc"   -> /\ tb["event"].len >= SvcEvSize
                         /\ tb["array"].len >= 4 /\ tb["array"].len % 4 = 0
    [] walk = "rdy"   -> tb["event"].len >= RdyEvSize
    [] OTHER          -> TRUE

Judge ==
  /\ status = "ended" /\ status' = IF Verdict THEN "ok" ELSE "bad"
  /\ UNCHANGED <<call, pos, tb, nameMatch, found, fWmiCredits>>

WalkNext == WalkOut \/ Overlong \/ UseSlice \/ UseBoardIe \/ UseCredits \/ Judge
WalkSpec == WalkInit /\ [][WalkNext]_walkVars

-----------------------------------------------------------------------------
(* Reference: what the buffer holds, said without a walk.                  *)

(* The records that lie in the buffer with header and body, nothing        *)
(* corrupt before them.                                                    *)
Whole    == {i \in DOMAIN recs : \A j \in 1 .. i : EndOf(j) <= total}
Slice(i) == [at |-> At[i] + Layout(walk).hdr, len |-> recs[i].len]
LastOf(tag) == LET S == {i \in Whole : recs[i].tag = tag}
               IN IF S = {} THEN NoSlice ELSE Slice(Max(S))

(* A record begins in the buffer and its body does not end there. *)
Torn == \E i \in DOMAIN recs : /\ At[i] + Layout(walk).hdr <= total /\ EndOf(i) > total

(* The board data whose nearest name before it is the card's. *)
OurData ==
  {i \in Whole : /\ recs[i].tag = "data"
                 /\ LET N == {j \in 1 .. i - 1 : recs[j].tag = "name"}
                    IN N # {} /\ recs[Max(N)].holds = "mine"}

Result == status \in {"ok", "bad"}

(* Every header a walk looks at is a header: no length or padding the      *)
(* buffer declares makes it take payload for a record or step past the     *)
(* end, whatever the buffer and wherever it is cut.                        *)
InStep == /\ status = "walking" => \E i \in DOMAIN At : pos = At[i]
          /\ pos <= total

(* parseFirmware accepts a container exactly if no IE is torn and the last *)
(* firmware image is not empty, and hands out the last whole firmware and  *)
(* OTP image and the last version that fits its field with its NUL.        *)
FwRight ==
  walk = "fw" /\ Result =>
    /\ (status = "ok") = (~Torn /\ LastOf("image").len > 0)
    /\ status = "ok" => tb["image"] = LastOf("image") /\ tb["otp"] = LastOf("otp")
    /\ status = "ok" => tb["version"] =
         LET S == {i \in Whole : recs[i].tag = "version" /\ recs[i].len + 1 < VersionSize}
         IN IF S = {} THEN NoSlice ELSE Slice(Max(S))

(* selectBoard over a flat list returns the first board data under the     *)
(* card's own name and never another card's.                               *)
BoardRight ==
  walk = "board" /\ Result =>
    /\ (status = "ok") = (OurData # {})
    /\ status = "ok" => found = Slice(Min(OurData))

(* Which of several arrays is the service bitmap is left open:             *)
(* parseServiceReady says "First ARRAY_UINT32", tlvParse hands it the last. *)
OneArray ==
  \A i, j \in DOMAIN recs : recs[i].tag = "array" /\ recs[j].tag = "array" => i = j

(* An event with at most one array TLV is accepted exactly if its TLVs     *)
(* fill it to the last byte and the last of each kind the driver reads is  *)
(* long enough for the reads.                                              *)
TlvRight ==
  walk \in {"svc", "rdy"} /\ Result /\ OneArray =>
    (status = "ok") =
      /\ ~Torn /\ \E i \in DOMAIN At : total = At[i]
      /\ LastOf("event").len >= IF walk = "svc" THEN SvcEvSize ELSE RdyEvSize
      /\ walk = "svc" => LastOf("array").len >= 4 /\ LastOf("array").len % 4 = 0

(* The credits added are those of the whole entries of the whole credit    *)
(* records in the trailer: none twice, none from behind its end.           *)
CreditsRight ==
  walk = "credit" /\ Result =>
    fWmiCredits = SumTo([i \in DOMAIN recs |->
                           IF i \in Whole /\ recs[i].tag = "credits"
                           THEN SumTo(recs[i].grants, recs[i].len \div 4) ELSE 0],
                        Len(recs))

(* Every walk comes to a result, whatever lengths the buffer declares. *)
WalkEnds == <>Result

(* FW.hpp: one IE per vendor and, inside each, BOARD_NAME and BOARD_DATA;  *)
(* docs/RESOURCES.md: "M3 selectBoard() exact-match path will succeed for  *)
(* this machine", whose entry the container holds.                         *)
BoardFound ==
  walk = "board" /\ Result
    /\ (\E i \in Whole : /\ recs[i].holds = "list"
                         /\ \E k \in 1 .. Len(recs[i].inner) - 1 :
                              /\ recs[i].inner[k] = "mine" /\ recs[i].inner[k + 1] = "data")
    => status = "ok"
=============================================================================
