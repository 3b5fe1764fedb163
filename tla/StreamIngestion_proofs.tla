------------------------ MODULE StreamIngestion_proofs ------------------------
(***************************************************************************)
(* That the cursor of a stream never runs ahead of what was handed over,   *)
(* nor its saved copy ahead of the database, for any page, chunk and retry *)
(* sizes, any number of records, faults and restarts; that a stream falls  *)
(* back by less than a page, and in the file not at all; and what becomes  *)
(* of one that saved a cursor Horizon refuses.                             *)
(***************************************************************************)
EXTENDS StreamIngestion, FiniteSetTheorems, TLAPS

(* Everything up to p is in the database, in the buffer, or was dropped.   *)
Covered(p) == (ConfigCursor + 1)..p \subseteq Handled

(* Between them cursor and builder name no record that was not handled.    *)
CursorInv == Covered(cursor.token) /\ Covered(builder.token)

(* A page is a run of consecutive records that starts behind handled ones. *)
PageInv ==
  phase = "paging" =>
    /\ page # <<>>
    /\ \A i \in 1..Len(page) : page[i] = page[1] + i - 1
    /\ Covered(page[1] - 1)

(* The buffer is always short of a chunk, and empty once it was closed.    *)
BufferInv ==
  /\ Len(buffer) < ChunkSize
  /\ phase \in {"down", "saving", "waiting", "over"} => buffer = <<>>

(* The retry counts are below their limit wherever they may still grow.    *)
CountInv ==
  /\ phase \in {"fetching", "paging"} => retries < MaxRetries
  /\ phase # "over" => attempts < MaxRetries

(* A running stream is never in front of its configured start.             *)
BaseInv ==
  /\ phase # "down" => cursor.token >= ConfigCursor /\ builder.token >= ConfigCursor
  /\ phase = "paging" => page[1] > ConfigCursor

(* A page is no longer than asked for.  The cursor is in front of what is  *)
(* asked for by at most that, and never in front of the newest record      *)
(* unless the stream was started there.                                    *)
ReachInv ==
  /\ phase = "paging" =>
       \A i \in 1..Len(page) :
         /\ builder.token < page[i] /\ page[i] <= builder.token + BatchSize
         /\ page[i] <= head
  /\ phase # "down" => cursor.token <= builder.token + BatchSize
  /\ phase \notin {"down", "paging"} =>
       cursor.token <= builder.token \/ cursor.token <= head

(* As long as nobody else writes the file, a stream that was not configured *)
(* is between two pages never behind the cursor in the file, and the page   *)
(* it reads ends no earlier.                                                *)
AheadInv ==
  ConfigCursor = 0 /\ phase # "down" =>
    IF phase = "paging" THEN page # <<>> /\ page[Len(page)] >= saved.token
    ELSE cursor.token >= saved.token

(* Then a cursor with the rest of a link's query, once saved, is all the   *)
(* stream has.                                                             *)
StuckInv ==
  ConfigCursor = 0 /\ saved.query =>
    /\ buffer = <<>> /\ phase # "paging"
    /\ phase # "down" => cursor = saved
    /\ phase = "fetching" => builder = saved

IInv ==
  /\ TypeOK /\ CursorInv /\ SavedIsAccountedFor
  /\ PageInv /\ BufferInv /\ CountInv /\ BaseInv /\ ReachInv /\ RequestsFollowCursor

-----------------------------------------------------------------------------
(* Sequences.                                                              *)

(* What a position is, and that a token is one.                            *)
LEMMA PositionIs ==
  ASSUME NEW p \in Position
  PROVE  p.token \in 0..MaxToken /\ p.token \in Nat /\ p.query \in BOOLEAN
BY DEF Position

LEMMA AtIs ==
  ASSUME NEW t
  PROVE  /\ At(t).token = t /\ At(t).query = FALSE
         /\ t \in 0..MaxToken => At(t) \in Position
BY DEF At, Position

LEMMA NoneIs == None \in Position /\ None.token = 0 /\ None.query = FALSE
<1>1. 0 \in 0..MaxToken
  BY StreamAssumption
<1> QED
  BY <1>1, AtIs DEF None

(* Appending a record adds it to the records of the buffer.                *)
LEMMA RangeOfAppend ==
  ASSUME NEW S, NEW s \in Seq(S), NEW e \in S
  PROVE  /\ Append(s, e) \in Seq(S) /\ Len(Append(s, e)) = Len(s) + 1
         /\ Range(Append(s, e)) = Range(s) \cup {e}
<1>1. Append(s, e) \in Seq(S) /\ Len(Append(s, e)) = Len(s) + 1
  OBVIOUS
<1>2. /\ \A i \in 1..Len(s) : Append(s, e)[i] = s[i]
      /\ Append(s, e)[Len(s) + 1] = e
  OBVIOUS
<1>3. DOMAIN s = 1..Len(s) /\ DOMAIN Append(s, e) = 1..(Len(s) + 1) /\ Len(s) \in Nat
  OBVIOUS
<1>4. ASSUME NEW x PROVE x \in Range(Append(s, e)) <=> x \in Range(s) \cup {e}
  <2>1. ASSUME x \in Range(Append(s, e)) PROVE x \in Range(s) \cup {e}
    <3>1. PICK i \in 1..(Len(s) + 1) : x = Append(s, e)[i]
      BY <1>3, <2>1 DEF Range
    <3>2. i \in 1..Len(s) \/ i = Len(s) + 1
      BY <1>3
    <3> QED
      BY <1>2, <1>3, <3>1, <3>2 DEF Range
  <2>2. ASSUME x \in Range(s) PROVE x \in Range(Append(s, e))
    <3>1. PICK i \in 1..Len(s) : x = s[i]
      BY <1>3, <2>2 DEF Range
    <3>2. i \in 1..(Len(s) + 1)
      BY <1>3
    <3> QED
      BY <1>2, <1>3, <3>1, <3>2 DEF Range
  <2>3. e \in Range(Append(s, e))
    <3>1. Len(s) + 1 \in 1..(Len(s) + 1)
      BY <1>3
    <3> QED
      BY <1>2, <1>3, <3>1 DEF Range
  <2> QED
    BY <2>1, <2>2, <2>3
<1> QED
  BY <1>1, <1>4

(* An empty buffer holds no record; a buffer's records are records.        *)
LEMMA RangeOfEmpty == Range(<<>>) = {}
BY DEF Range

LEMMA RangeOfTokens ==
  ASSUME NEW s \in Seq(Token) PROVE Range(s) \subseteq Token
BY DEF Range

-----------------------------------------------------------------------------
(* The buffer.                                                             *)

(* A flush, whether it succeeds or not, leaves no record unaccounted for.  *)
LEMMA FlushAccounts ==
  ASSUME TypeOK, NEW batch \in Seq(Token), Flushed(batch)
  PROVE  /\ buffer' = <<>> /\ stored' \subseteq Token /\ lost' \subseteq Token
         /\ stored \cup lost \cup Range(batch) \subseteq stored' \cup lost'
         /\ faults' \in 0..MaxFaults /\ starts' = starts
<1>1. Range(batch) \subseteq Token
  BY RangeOfTokens
<1>2. CASE stored' = stored \cup Range(batch) /\ UNCHANGED <<lost, counters>>
  BY <1>1, <1>2 DEF Flushed, TypeOK, counters
<1>3. CASE /\ Fault /\ lost' = lost \cup (Range(batch) \ stored)
           /\ UNCHANGED stored
  <2>1. faults' \in 0..MaxFaults /\ starts' = starts
    BY <1>3, StreamAssumption DEF Fault, TypeOK
  <2> QED
    BY <1>1, <1>3, <2>1 DEF Flushed, TypeOK
<1> QED
  BY <1>2, <1>3 DEF Flushed

(* Processing a record accounts for it and for all that was handled.       *)
LEMMA ProcessAccounts ==
  ASSUME TypeOK, BufferInv, NEW r \in Token, _process_effect(r)
  PROVE  /\ buffer' \in Seq(Token) /\ Len(buffer') < ChunkSize
         /\ stored' \subseteq Token /\ lost' \subseteq Token
         /\ Handled \cup {r} \subseteq Handled'
         /\ stored \cup lost \subseteq stored' \cup lost'
         /\ faults' \in 0..MaxFaults /\ starts' = starts
<1> DEFINE filled == Append(buffer, r)
<1>1. /\ filled \in Seq(Token) /\ Len(filled) = Len(buffer) + 1
      /\ Range(filled) = Range(buffer) \cup {r}
  BY RangeOfAppend DEF TypeOK
<1>2. CASE Flushed(filled)
  <2>1. /\ buffer' = <<>> /\ stored' \subseteq Token /\ lost' \subseteq Token
        /\ stored \cup lost \cup Range(filled) \subseteq stored' \cup lost'
        /\ faults' \in 0..MaxFaults /\ starts' = starts
    BY <1>1, <1>2, FlushAccounts
  <2>2. buffer' \in Seq(Token) /\ Len(buffer') < ChunkSize
    BY <2>1, StreamAssumption
  <2> QED
    BY <1>1, <2>1, <2>2 DEF Handled
<1>3. CASE /\ Len(filled) < ChunkSize /\ buffer' = filled
           /\ UNCHANGED <<stored, lost, counters>>
  BY <1>1, <1>3 DEF Handled, TypeOK, counters
<1>4. CASE /\ Fault /\ lost' = lost \cup ({r} \ stored)
           /\ UNCHANGED <<buffer, stored>>
  <2>1. faults' \in 0..MaxFaults /\ starts' = starts
    BY <1>4, StreamAssumption DEF Fault, TypeOK
  <2> QED
    BY <1>4, <2>1 DEF Handled, TypeOK, BufferInv
<1>5. Len(filled) \in Nat /\ ChunkSize \in Nat
  BY <1>1, StreamAssumption
<1> QED
  BY <1>2, <1>3, <1>4, <1>5 DEF _process_effect, add

-----------------------------------------------------------------------------
(* The invariant.                                                          *)

LEMMA InitIInv == ASSUME Init PROVE IInv
<1> USE StreamAssumption DEF Init
<1>1. TypeOK
  <2>1. page \in Seq(Token) /\ buffer \in Seq(Token)
    OBVIOUS
  <2> QED
    BY <2>1, NoneIs DEF TypeOK, Phase, Outcome
<1>2. (ConfigCursor + 1)..0 = {}
  OBVIOUS
<1>3. CursorInv /\ SavedIsAccountedFor
  BY <1>2, NoneIs DEF CursorInv, Covered, SavedIsAccountedFor
<1>4. PageInv /\ BufferInv /\ CountInv /\ BaseInv /\ ReachInv /\ RequestsFollowCursor
  BY DEF PageInv, BufferInv, CountInv, BaseInv, ReachInv, RequestsFollowCursor
<1> QED
  BY <1>1, <1>3, <1>4 DEF IInv

(* Horizon grows.                                                          *)
LEMMA PublishIInv == ASSUME IInv, Publish PROVE IInv'
<1> USE DEF Publish, reading, control, counters
<1>1. TypeOK'
  BY StreamAssumption DEF IInv, TypeOK
<1>2. UNCHANGED <<stored, saved, phase, cursor, builder, page, buffer, retries, attempts, lost>>
  OBVIOUS
<1>3. CursorInv' /\ SavedIsAccountedFor' /\ PageInv'
  BY <1>2 DEF IInv, CursorInv, Covered, Handled, SavedIsAccountedFor, PageInv
<1>4. BufferInv' /\ CountInv' /\ BaseInv' /\ RequestsFollowCursor'
  BY <1>2 DEF IInv, BufferInv, CountInv, BaseInv, RequestsFollowCursor
<1>5. ReachInv'
  <2>1. /\ head \in Nat /\ head' = head + 1 /\ cursor.token \in Nat
        /\ \A i \in 1..Len(page) : page[i] \in Nat
    BY PositionIs, StreamAssumption DEF IInv, TypeOK, Token
  <2> QED
    BY <1>2, <2>1 DEF IInv, ReachInv
<1> QED
  BY <1>1, <1>3, <1>4, <1>5 DEF IInv

(* A start resumes from the saved cursor or the configured one.            *)
LEMMA StartIInv == ASSUME IInv, start PROVE IInv'
<1> USE DEF start, remote
<1>0. /\ cursor' \in {saved, At(ConfigCursor)} /\ builder' = cursor'
      /\ UNCHANGED <<head, stored, saved, lost>> /\ phase' = "fetching"
      /\ page' = <<>> /\ buffer' = <<>> /\ retries' = 0 /\ attempts' = 0
      /\ ConfigCursor = 0 => cursor' = saved
  BY DEF None
<1>1. /\ cursor' \in Position /\ cursor'.token \in Nat
      /\ cursor'.token \in {saved.token, ConfigCursor} /\ cursor'.token >= ConfigCursor
  <2>1. /\ saved \in Position /\ saved.token \in Nat
        /\ At(ConfigCursor) \in Position /\ At(ConfigCursor).token = ConfigCursor
        /\ ConfigCursor \in Nat
    BY PositionIs, AtIs, StreamAssumption DEF IInv, TypeOK
  <2>2. cursor' = At(ConfigCursor) \/ (ConfigCursor = 0 /\ cursor' = saved)
    OBVIOUS
  <2> QED
    BY <1>0, <2>1, <2>2
<1>2. TypeOK'
  <2>1. page' \in Seq(Token) /\ buffer' \in Seq(Token)
    BY <1>0
  <2>2. starts' \in 0..MaxStarts
    BY StreamAssumption DEF IInv, TypeOK
  <2> QED
    BY <1>0, <1>1, <2>1, <2>2, StreamAssumption DEF IInv, TypeOK, Phase, Outcome
<1>3. CursorInv'
  <2>1. (ConfigCursor + 1)..ConfigCursor = {}
    BY StreamAssumption
  <2>2. (ConfigCursor + 1)..cursor'.token \subseteq stored' \cup lost'
    BY <1>0, <1>1, <2>1 DEF IInv, SavedIsAccountedFor
  <2> QED
    BY <1>0, <2>2 DEF CursorInv, Covered, Handled
<1>4. SavedIsAccountedFor' /\ PageInv' /\ BufferInv' /\ CountInv' /\ BaseInv'
  BY <1>0, <1>1, StreamAssumption
  DEF IInv, SavedIsAccountedFor, PageInv, BufferInv, CountInv, BaseInv
<1>5. ReachInv' /\ RequestsFollowCursor'
  BY <1>0, <1>1, StreamAssumption DEF ReachInv, RequestsFollowCursor
<1> QED
  BY <1>2, <1>3, <1>4, <1>5 DEF IInv

(* A page starts behind the builder's cursor.                              *)
LEMMA FetchPageIInv == ASSUME IInv, FetchPage PROVE IInv'
<1> USE DEF FetchPage, remote, counters
<1> DEFINE b == builder.token
           n == IF head - b < BatchSize THEN head - b ELSE BatchSize
<1>0. /\ b \in Nat /\ head \in 0..MaxToken /\ cursor.token \in Nat /\ MaxToken \in Nat
      /\ BatchSize \in Nat \ {0} /\ head - b > 0 /\ MaxRetries \in Nat \ {0}
  BY PositionIs, StreamAssumption DEF IInv, TypeOK, Remaining
<1>1. n \in Nat \ {0} /\ n <= BatchSize /\ b + n <= head
  BY <1>0
<1>2. /\ page' = [i \in 1..n |-> b + i] /\ phase = "fetching" /\ phase' = "paging"
      /\ retries' = 0
      /\ UNCHANGED <<head, stored, saved, cursor, builder, outcome, attempts,
                     faults, starts, buffer, lost>>
  BY DEF Page, Remaining
<1> HIDE DEF n
<1>3. /\ page' \in Seq(Token) /\ Len(page') = n /\ page' # <<>>
      /\ \A i \in 1..n : page'[i] = b + i
  <2>1. \A i \in 1..n : b + i \in Token
    BY <1>0, <1>1 DEF Token
  <2>2. page' \in Seq(Token) /\ Len(page') = n
    BY <1>1, <1>2, <2>1
  <2>3. page' # <<>> /\ \A i \in 1..n : page'[i] = b + i
    BY <1>1, <1>2, <2>2
  <2> QED
    BY <2>2, <2>3
<1>4. TypeOK'
  BY <1>0, <1>2, <1>3 DEF IInv, TypeOK, Phase
<1>5. page'[1] = b + 1 /\ \A i \in 1..Len(page') : page'[i] = page'[1] + i - 1
  <2>1. page'[1] = b + 1
    BY <1>1, <1>3
  <2>2. ASSUME NEW i \in 1..n PROVE page'[i] = page'[1] + i - 1
    <3>1. page'[i] = b + i /\ i \in Int /\ b \in Int
      BY <1>0, <1>1, <1>3
    <3> HIDE DEF b
    <3> QED
      BY <2>1, <3>1
  <2> QED
    BY <1>3, <2>1, <2>2
<1>6. CursorInv' /\ PageInv'
  <2>1. page'[1] - 1 = b
    BY <1>0, <1>5
  <2> QED
    BY <1>2, <1>3, <1>5, <2>1 DEF IInv, CursorInv, PageInv, Covered, Handled
<1>7. SavedIsAccountedFor' /\ BufferInv' /\ CountInv' /\ BaseInv'
  BY <1>0, <1>2, <1>5, StreamAssumption
  DEF IInv, SavedIsAccountedFor, BufferInv, CountInv, BaseInv
<1>8. ReachInv'
  <2>1. \A i \in 1..n : b < page'[i] /\ page'[i] <= b + BatchSize /\ page'[i] <= head
    BY <1>0, <1>1, <1>3
  <2> QED
    BY <1>2, <1>3, <2>1 DEF IInv, ReachInv
<1>9. RequestsFollowCursor'
  <2>1. Head(page') = b + 1
    BY <1>3, <1>5
  <2>2. b \in (cursor.token - BatchSize)..cursor.token
    BY <1>2 DEF IInv, RequestsFollowCursor
  <2> QED
    BY <1>0, <1>2, <2>1, <2>2 DEF RequestsFollowCursor
<1> QED
  BY <1>4, <1>6, <1>7, <1>8, <1>9 DEF IInv

(* Requests that bring no page: the counts change, or the stream is left.  *)
LEMMA FetchOtherIInv ==
  ASSUME IInv, FetchNothing \/ FetchBroken \/ FetchRefused \/ FetchRaises
  PROVE  IInv'
<1>0. /\ UNCHANGED <<head, stored, saved, cursor, builder, page, buffer, lost,
                     attempts, starts>>
      /\ phase = "fetching" /\ phase' \in {"fetching", "closing"}
      /\ outcome' \in Outcome /\ faults' \in 0..MaxFaults
      /\ retries' \in 0..MaxRetries
      /\ phase' = "fetching" => retries' < MaxRetries
  <2>0. /\ retries \in Nat /\ MaxRetries \in Nat /\ faults \in Nat /\ MaxFaults \in Nat
        /\ phase = "fetching" => retries < MaxRetries
        /\ MaxRetries > 0 /\ outcome \in Outcome /\ faults \in 0..MaxFaults
    BY StreamAssumption DEF IInv, TypeOK, CountInv
  <2>1. CASE FetchNothing
    BY <2>0, <2>1 DEF FetchNothing, remote, control, counters
  <2>2. CASE FetchBroken
    BY <2>0, <2>2 DEF FetchBroken, Retry, Leave, Fault, remote, control, Outcome
  <2>3. CASE FetchRefused
    BY <2>0, <2>3 DEF FetchRefused, Retry, Leave, remote, control, counters, Outcome
  <2>4. CASE FetchRaises
    BY <2>0, <2>4 DEF FetchRaises, Retry, Leave, Fault, remote, control, Outcome
  <2> QED
    BY <2>1, <2>2, <2>3, <2>4
<1>1. TypeOK'
  BY <1>0 DEF IInv, TypeOK, Phase
<1>2. CursorInv' /\ SavedIsAccountedFor' /\ PageInv'
  BY <1>0 DEF IInv, CursorInv, Covered, Handled, SavedIsAccountedFor, PageInv
<1>3. BufferInv' /\ CountInv' /\ BaseInv' /\ ReachInv' /\ RequestsFollowCursor'
  BY <1>0 DEF IInv, BufferInv, CountInv, BaseInv, ReachInv, RequestsFollowCursor
<1> QED
  BY <1>1, <1>2, <1>3 DEF IInv

(* A record is handed over and the cursor moves to it.                     *)
LEMMA HandOverIInv == ASSUME IInv, HandOver PROVE IInv'
<1> USE DEF HandOver
<1> DEFINE r == Head(page)
<1>0. /\ page \in Seq(Token) /\ page # <<>> /\ phase = "paging"
      /\ \A i \in 1..Len(page) : page[i] = page[1] + i - 1
      /\ Covered(page[1] - 1) /\ page[1] > ConfigCursor
  BY DEF IInv, TypeOK, PageInv, BaseInv
<1>1. /\ r = page[1] /\ r \in Token /\ r \in Nat /\ Len(page) \in Nat \ {0}
      /\ Len(Tail(page)) = Len(page) - 1 /\ Tail(page) \in Seq(Token)
      /\ \A i \in 1..(Len(page) - 1) : Tail(page)[i] = page[i + 1]
  <2>1. Len(page) \in Nat \ {0} /\ r = page[1] /\ r \in Token
    BY <1>0
  <2>2. /\ Len(Tail(page)) = Len(page) - 1 /\ Tail(page) \in Seq(Token)
        /\ \A i \in 1..(Len(page) - 1) : Tail(page)[i] = page[i + 1]
    BY <1>0
  <2>3. r \in Nat
    BY <2>1, StreamAssumption DEF Token
  <2> QED
    BY <2>1, <2>2, <2>3
<1>2. /\ buffer' \in Seq(Token) /\ Len(buffer') < ChunkSize
      /\ stored' \subseteq Token /\ lost' \subseteq Token
      /\ Handled \cup {r} \subseteq Handled'
      /\ stored \cup lost \subseteq stored' \cup lost'
      /\ faults' \in 0..MaxFaults /\ starts' = starts
  BY <1>1, ProcessAccounts DEF IInv
<1>3. /\ cursor' \in Position /\ cursor'.token = r /\ page' = Tail(page)
      /\ UNCHANGED <<head, saved, outcome, attempts, retries>>
      /\ \/ Len(page) = 1 /\ phase' = "fetching" /\ builder' \in {cursor', builder}
         \/ Len(page) # 1 /\ phase' = "paging" /\ builder' = builder
  <2>1. r \in 0..MaxToken
    BY <1>1 DEF Token
  <2>2. CASE Len(page) = 1
    <3>1. PICK q \in LinkQueries :
            /\ cursor' = [token |-> r, query |-> q]
            /\ builder' \in {cursor', builder}
      BY <2>2 DEF AdvanceBuilder
    <3>2. cursor' \in Position /\ cursor'.token = r
      BY <2>1, <3>1, StreamAssumption DEF Position
    <3> QED
      BY <2>2, <3>1, <3>2
  <2>3. CASE Len(page) # 1
    BY <2>1, <2>3, AtIs
  <2> QED
    BY <2>2, <2>3
<1> HIDE DEF r, HandOver
<1>4. TypeOK'
  <2>1. r \in 0..MaxToken
    BY <1>1 DEF Token
  <2> QED
    BY <1>1, <1>2, <1>3, <2>1 DEF IInv, TypeOK, Phase
<1>5. (ConfigCursor + 1)..r \subseteq Handled'
  <2>1. (ConfigCursor + 1)..r \subseteq ((ConfigCursor + 1)..(r - 1)) \cup {r}
    BY <1>1, StreamAssumption
  <2>2. (ConfigCursor + 1)..(r - 1) \subseteq Handled
    BY <1>0, <1>1 DEF Covered
  <2> QED
    BY <1>2, <2>1, <2>2
<1>6. (ConfigCursor + 1)..builder.token \subseteq Handled'
  BY <1>2 DEF IInv, CursorInv, Covered
<1>7. CursorInv'
  BY <1>3, <1>5, <1>6 DEF CursorInv, Covered
<1>8. SavedIsAccountedFor'
  BY <1>2, <1>3 DEF IInv, SavedIsAccountedFor
<1>9. ASSUME Len(page) # 1
      PROVE  /\ page' # <<>> /\ page'[1] = r + 1
             /\ \A i \in 1..Len(page') : page'[i] = page'[1] + i - 1
  <2>1. page'[1] = page[2] /\ page[2] = r + 1
    BY <1>0, <1>1, <1>3, <1>9
  <2>2. ASSUME NEW i \in 1..Len(page') PROVE page'[i] = page'[1] + i - 1
    <3>1. page'[i] = page[i + 1] /\ page[i + 1] = page[1] + (i + 1) - 1
      BY <1>0, <1>1, <1>3
    <3> QED
      BY <1>1, <2>1, <3>1
  <2>3. Len(page') \in Nat /\ Len(page') # 0
    BY <1>1, <1>3, <1>9
  <2>4. page' # <<>>
    BY <2>3
  <2> QED
    BY <2>1, <2>2, <2>4
<1>10. PageInv'
  <2>1. CASE Len(page) = 1
    BY <1>3, <2>1 DEF PageInv
  <2>2. CASE Len(page) # 1
    <3>1. page'[1] - 1 = r
      BY <1>1, <1>9, <2>2
    <3> QED
      BY <1>5, <1>9, <2>2, <3>1 DEF PageInv, Covered
  <2> QED
    BY <2>1, <2>2
<1>11. BufferInv' /\ CountInv'
  BY <1>0, <1>2, <1>3 DEF IInv, BufferInv, CountInv
<1>12. /\ r \in Nat /\ r > ConfigCursor /\ ConfigCursor \in Nat
       /\ builder.token \in Nat /\ builder.token >= ConfigCursor
       /\ head \in Nat /\ BatchSize \in Nat \ {0}
       /\ builder.token < r /\ r <= builder.token + BatchSize /\ r <= head
  BY <1>0, <1>1, PositionIs, StreamAssumption DEF IInv, TypeOK, BaseInv, ReachInv
<1>13. BaseInv'
  BY <1>3, <1>9, <1>12 DEF BaseInv
<1>14. ReachInv'
  <2>1. CASE Len(page) = 1
    <3>1. cursor'.token <= builder'.token + BatchSize
      BY <1>3, <1>12, <2>1
    <3> QED
      BY <1>3, <1>12, <2>1, <3>1 DEF ReachInv
  <2>2. CASE Len(page) # 1
    <3>1. ASSUME NEW i \in 1..Len(page')
          PROVE  /\ builder.token < page'[i] /\ page'[i] <= builder.token + BatchSize
                 /\ page'[i] <= head
      <4>1. i + 1 \in 1..Len(page) /\ page'[i] = page[i + 1]
        BY <1>1, <1>3
      <4> QED
        BY <1>0, <4>1 DEF IInv, ReachInv
    <3> QED
      BY <1>3, <1>12, <2>2, <3>1 DEF ReachInv
  <2> QED
    BY <2>1, <2>2
<1>15. RequestsFollowCursor'
  <2>1. CASE Len(page) = 1
    BY <1>3, <1>12, <2>1 DEF RequestsFollowCursor
  <2>2. CASE Len(page) # 1
    <3>1. Head(page') = r + 1
      BY <1>9, <2>2
    <3>2. r + 1 \in (r - BatchSize + 1)..(r + 1)
      BY <1>12
    <3> QED
      BY <1>3, <2>2, <3>1, <3>2 DEF RequestsFollowCursor
  <2> QED
    BY <2>1, <2>2
<1> QED
  BY <1>4, <1>7, <1>8, <1>10, <1>11, <1>13, <1>14, <1>15 DEF IInv

(* The stream is cancelled.                                                *)
LEMMA ShutdownIInv == ASSUME IInv, _shutdown PROVE IInv'
<1>0. /\ UNCHANGED <<head, stored, saved, cursor, builder, page, retries, attempts,
                     faults, starts, buffer, lost>>
      /\ \/ phase = "fetching" /\ phase' = "closing" /\ outcome' = "cancelled"
         \/ phase = "waiting" /\ phase' = "over" /\ outcome' = outcome
  BY DEF _shutdown, Leave, remote, reading, counters
<1>1. TypeOK'
  BY <1>0 DEF IInv, TypeOK, Phase, Outcome
<1>2. CursorInv' /\ SavedIsAccountedFor' /\ PageInv'
  BY <1>0 DEF IInv, CursorInv, Covered, Handled, SavedIsAccountedFor, PageInv
<1>3. BufferInv' /\ CountInv' /\ BaseInv' /\ ReachInv' /\ RequestsFollowCursor'
  BY <1>0 DEF IInv, BufferInv, CountInv, BaseInv, ReachInv, RequestsFollowCursor
<1> QED
  BY <1>1, <1>2, <1>3 DEF IInv

(* The buffer is closed.                                                   *)
LEMMA CloseIInv == ASSUME IInv, __aexit__ PROVE IInv'
<1>0. /\ UNCHANGED <<head, saved, cursor, builder, page, retries, outcome, attempts>>
      /\ phase = "closing" /\ phase' = "saving" /\ Flushed(buffer)
  BY DEF __aexit__, reading
<1>1. /\ buffer' = <<>> /\ stored' \subseteq Token /\ lost' \subseteq Token
      /\ stored \cup lost \cup Range(buffer) \subseteq stored' \cup lost'
      /\ faults' \in 0..MaxFaults /\ starts' = starts
  BY <1>0, FlushAccounts DEF IInv, TypeOK
<1>2. TypeOK'
  <2>1. buffer' \in Seq(Token)
    BY <1>1
  <2> QED
    BY <1>0, <1>1, <2>1 DEF IInv, TypeOK, Phase
<1>3. CursorInv' /\ SavedIsAccountedFor'
  BY <1>0, <1>1 DEF IInv, CursorInv, Covered, Handled, SavedIsAccountedFor
<1>4. PageInv' /\ BufferInv' /\ CountInv' /\ BaseInv' /\ ReachInv' /\ RequestsFollowCursor'
  BY <1>0, <1>1, StreamAssumption
  DEF IInv, PageInv, BufferInv, CountInv, BaseInv, ReachInv, RequestsFollowCursor
<1> QED
  BY <1>2, <1>3, <1>4 DEF IInv

(* The cursor is saved.                                                    *)
LEMMA SaveIInv == ASSUME IInv, save_cursor PROVE IInv'
<1>0. /\ UNCHANGED <<head, stored, cursor, builder, page, retries, outcome,
                     faults, starts, buffer, lost>>
      /\ phase = "saving" /\ buffer = <<>> /\ attempts < MaxRetries
      /\ saved' \in {saved, cursor} /\ (cursor # None => saved' = cursor)
      /\ attempts' \in {attempts, attempts + 1} /\ phase' \in {"waiting", "over"}
      /\ phase' = "waiting" => attempts' < MaxRetries
  BY DEF save_cursor, reading, counters, IInv, BufferInv, CountInv
<1>1. TypeOK'
  BY <1>0, StreamAssumption DEF IInv, TypeOK, Phase
<1>2. CursorInv'
  BY <1>0 DEF IInv, CursorInv, Covered, Handled
<1>3. SavedIsAccountedFor'
  <2>1. (ConfigCursor + 1)..cursor.token \subseteq stored \cup lost
    BY <1>0, RangeOfEmpty DEF IInv, CursorInv, Covered, Handled
  <2> QED
    BY <1>0, <2>1 DEF IInv, SavedIsAccountedFor
<1>4. PageInv' /\ BufferInv' /\ CountInv' /\ BaseInv'
  BY <1>0 DEF IInv, PageInv, BufferInv, CountInv, BaseInv
<1>5. ReachInv' /\ RequestsFollowCursor'
  BY <1>0 DEF IInv, TypeOK, ReachInv, RequestsFollowCursor
<1> QED
  BY <1>1, <1>2, <1>3, <1>4, <1>5 DEF IInv

(* The next attempt begins.                                                *)
LEMMA ReenterIInv == ASSUME IInv, Reenter PROVE IInv'
<1>0. /\ UNCHANGED <<head, stored, saved, cursor, page, outcome, attempts,
                     faults, starts, buffer, lost>>
      /\ phase = "waiting" /\ phase' = "fetching" /\ builder' = cursor /\ retries' = 0
  BY DEF Reenter, remote, counters
<1>1. TypeOK'
  BY <1>0, StreamAssumption DEF IInv, TypeOK, Phase
<1>2. CursorInv' /\ SavedIsAccountedFor'
  BY <1>0 DEF IInv, CursorInv, Covered, Handled, SavedIsAccountedFor
<1>3. PageInv' /\ BufferInv' /\ CountInv' /\ BaseInv'
  BY <1>0, StreamAssumption DEF IInv, PageInv, BufferInv, CountInv, BaseInv
<1>4. ReachInv' /\ RequestsFollowCursor'
  <2>1. cursor.token \in Nat /\ BatchSize \in Nat \ {0}
    BY PositionIs, StreamAssumption DEF IInv, TypeOK
  <2> QED
    BY <1>0, <2>1 DEF ReachInv, RequestsFollowCursor
<1> QED
  BY <1>1, <1>2, <1>3, <1>4 DEF IInv

(* The process dies; what it had in memory no longer counts.               *)
LEMMA CrashIInv == ASSUME IInv, Crash PROVE IInv'
<1>0. /\ UNCHANGED <<head, stored, saved, faults, starts, lost>>
      /\ phase' = "down" /\ outcome' = "none" /\ attempts' = 0
      /\ cursor' = None /\ builder' = None /\ page' = <<>> /\ retries' = 0 /\ buffer' = <<>>
  BY DEF Crash, remote, counters
<1>1. TypeOK'
  <2>1. page' \in Seq(Token) /\ buffer' \in Seq(Token)
    BY <1>0
  <2> QED
    BY <1>0, <2>1, NoneIs, StreamAssumption DEF IInv, TypeOK, Phase, Outcome
<1>2. (ConfigCursor + 1)..0 = {}
  BY StreamAssumption
<1>3. CursorInv' /\ SavedIsAccountedFor'
  BY <1>0, <1>2, NoneIs DEF IInv, CursorInv, Covered, SavedIsAccountedFor
<1>4. PageInv' /\ BufferInv' /\ CountInv' /\ BaseInv' /\ ReachInv' /\ RequestsFollowCursor'
  BY <1>0, StreamAssumption
  DEF IInv, PageInv, BufferInv, CountInv, BaseInv, ReachInv, RequestsFollowCursor
<1> QED
  BY <1>1, <1>3, <1>4 DEF IInv

LEMMA StutterIInv == ASSUME IInv, UNCHANGED vars PROVE IInv'
<1>0. UNCHANGED <<head, stored, saved, phase, outcome, cursor, builder, page, buffer,
                  retries, attempts, lost, faults, starts>>
  BY DEF vars, remote, reading, control, counters
<1>1. TypeOK'
  BY <1>0 DEF IInv, TypeOK
<1>2. CursorInv' /\ SavedIsAccountedFor'
  BY <1>0 DEF IInv, CursorInv, Covered, Handled, SavedIsAccountedFor
<1>3. PageInv' /\ BufferInv' /\ CountInv' /\ BaseInv' /\ ReachInv' /\ RequestsFollowCursor'
  BY <1>0
  DEF IInv, PageInv, Covered, Handled, BufferInv, CountInv, BaseInv, ReachInv, RequestsFollowCursor
<1> QED
  BY <1>1, <1>2, <1>3 DEF IInv

(* Every step keeps the invariant.                                         *)
LEMMA NextIInv == ASSUME IInv, [Next]_vars PROVE IInv'
BY PublishIInv, StartIInv, FetchPageIInv, FetchOtherIInv, HandOverIInv, ShutdownIInv,
   CloseIInv, SaveIInv, ReenterIInv, CrashIInv, StutterIInv DEF Next

(* The invariant holds throughout.                                         *)
THEOREM Invariance == Spec => []IInv
<1>1. Init => IInv
  BY InitIInv
<1>2. IInv /\ [Next]_vars => IInv'
  BY NextIInv
<1> QED
  BY <1>1, <1>2, PTL DEF Spec

(* Types.                                                                  *)
THEOREM TypeCorrect == Spec => []TypeOK
<1>1. IInv => TypeOK
  BY DEF IInv
<1> QED
  BY <1>1, Invariance, PTL

(* No record is skipped in memory, whatever form the next links have.      *)
THEOREM CursorAccountsForRecordsHolds == Spec => []CursorAccountsForRecords
<1>1. IInv => CursorAccountsForRecords
  BY DEF IInv, CursorInv, Covered, CursorAccountsForRecords
<1> QED
  BY <1>1, Invariance, PTL

(* The saved cursor never runs ahead of the database.                      *)
THEOREM SavedIsAccountedForHolds == Spec => []SavedIsAccountedFor
<1>1. IInv => SavedIsAccountedFor
  BY DEF IInv
<1> QED
  BY <1>1, Invariance, PTL

(* Requests are never ahead of the cursor and at most a page behind it, in *)
(* whatever way pages are linked.                                          *)
THEOREM RequestsFollowCursorHolds == Spec => []RequestsFollowCursor
<1>1. IInv => RequestsFollowCursor
  BY DEF IInv
<1> QED
  BY <1>1, Invariance, PTL

(* Within a process the cursor falls back by less than a page.             *)
LEMMA StepReplay ==
  ASSUME IInv, [Next]_vars, phase' # "down", starts' = starts
  PROVE  cursor'.token > cursor.token - BatchSize
<1>0. cursor.token \in Nat /\ BatchSize \in Nat \ {0} /\ starts \in Nat
  BY PositionIs, StreamAssumption DEF IInv, TypeOK
<1>1. CASE HandOver
  <2>1. cursor'.token = Head(page) /\ phase = "paging"
    <3>1. \/ cursor' = At(Head(page))
          \/ \E q \in LinkQueries : cursor' = [token |-> Head(page), query |-> q]
      BY <1>1 DEF HandOver, AdvanceBuilder
    <3>2. phase = "paging"
      BY <1>1 DEF HandOver
    <3>3. \E q : cursor' = [token |-> Head(page), query |-> q]
      BY <3>1 DEF At
    <3>4. PICK q : cursor' = [token |-> Head(page), query |-> q]
      BY <3>3
    <3>5. cursor'.token = Head(page)
      BY <3>4
    <3> QED
      BY <3>2, <3>5
  <2>2. Head(page) \in (cursor.token - BatchSize + 1)..(cursor.token + 1)
    BY <2>1 DEF IInv, RequestsFollowCursor
  <2> QED
    BY <1>0, <2>1, <2>2
<1>2. CASE start
  BY <1>0, <1>2 DEF start
<1>3. CASE Crash
  BY <1>3 DEF Crash
<1>4. CASE ~HandOver /\ ~start /\ ~Crash
  <2>1. cursor' = cursor
    BY <1>4
    DEF Next, Publish, FetchPage, FetchNothing, FetchBroken, FetchRefused, FetchRaises,
        Retry, _shutdown, __aexit__, save_cursor, Reenter, reading, vars
  <2> QED
    BY <1>0, <2>1
<1> QED
  BY <1>1, <1>2, <1>3, <1>4

THEOREM ReplayBoundedHolds == Spec => ReplayBounded
<1>1. IInv /\ [Next]_vars =>
        [phase' # "down" /\ starts' = starts =>
           cursor'.token > cursor.token - BatchSize]_vars
  BY StepReplay
<1> QED
  BY <1>1, Invariance, PTL DEF Spec, ReplayBounded

(* What is saved next is not behind what is in the file: between two pages *)
(* the cursor is not, and a page that is asked for again ends no earlier.  *)
LEMMA NextAheadInv ==
  ASSUME IInv, AheadInv, ConfigCursor = 0, [Next]_vars
  PROVE  AheadInv' /\ saved'.token >= saved.token
<1>0. /\ cursor.token \in Nat /\ saved.token \in Nat /\ builder.token \in Nat
      /\ head \in Nat /\ BatchSize \in Nat
  BY PositionIs, StreamAssumption DEF IInv, TypeOK
<1>1. CASE save_cursor
  <2>1. /\ phase = "saving" /\ cursor' = cursor /\ phase' # "paging"
        /\ saved' = IF cursor = None THEN saved ELSE cursor
    BY <1>1 DEF save_cursor, reading
  <2> QED
    BY <1>0, <2>1 DEF AheadInv
<1>2. CASE FetchPage
  <2> DEFINE n == IF head - builder.token < BatchSize THEN head - builder.token ELSE BatchSize
  <2>1. /\ phase = "fetching" /\ phase' = "paging" /\ saved' = saved
        /\ page' = [i \in 1..n |-> builder.token + i] /\ head - builder.token > 0
    BY <1>2 DEF FetchPage, Page, Remaining, remote
  <2>2. n \in Nat \ {0} /\ (builder.token + n = head \/ n = BatchSize)
    BY <1>0, <2>1, StreamAssumption
  <2>3. /\ cursor.token >= saved.token /\ cursor.token <= builder.token + BatchSize
        /\ cursor.token <= builder.token \/ cursor.token <= head
    BY <2>1 DEF AheadInv, IInv, ReachInv
  <2> HIDE DEF n
  <2>4. page' # <<>> /\ page'[Len(page')] = builder.token + n
    <3>1. page' \in Seq(Nat) /\ Len(page') = n
      BY <1>0, <2>1, <2>2
    <3> QED
      BY <2>1, <2>2, <3>1
  <2>5. builder.token + n >= saved.token
    <3>1. n \in Nat
      BY <2>2
    <3>2. CASE n = BatchSize
      BY <1>0, <2>3, <3>2
    <3>3. CASE builder.token + n = head
      BY <1>0, <2>1, <2>3, <3>1, <3>3
    <3> QED
      BY <2>2, <3>2, <3>3
  <2>6. saved'.token = saved.token
    BY <2>1
  <2>7. page'[Len(page')] >= saved'.token
    BY <2>4, <2>5, <2>6
  <2>8. saved'.token >= saved.token
    BY <1>0, <2>6
  <2> QED
    BY <2>1, <2>4, <2>7, <2>8 DEF AheadInv
<1>3. CASE HandOver
  <2>1. /\ phase = "paging" /\ saved' = saved /\ page' = Tail(page)
        /\ page \in Seq(Token) /\ page # <<>> /\ page[Len(page)] >= saved.token
    BY <1>3 DEF HandOver, AheadInv, IInv, TypeOK
  <2>2. CASE Len(page) = 1
    <3>1. phase' = "fetching" /\ cursor'.token = page[1]
      BY <1>3, <2>1, <2>2 DEF HandOver, AdvanceBuilder
    <3> QED
      BY <1>0, <2>1, <2>2, <3>1 DEF AheadInv
  <2>3. CASE Len(page) # 1
    <3>1. phase' = "paging"
      BY <1>3, <2>1, <2>3 DEF HandOver
    <3>2. /\ Len(page) \in Nat /\ Len(page) > 1 /\ Len(page') = Len(page) - 1
          /\ \A i \in 1..(Len(page) - 1) : page'[i] = page[i + 1]
      <4>1. Len(page) \in Nat \ {0}
        BY <2>1
      <4>2. Len(page') = Len(page) - 1
        BY <2>1
      <4>3. \A i \in 1..(Len(page) - 1) : page'[i] = page[i + 1]
        BY <2>1
      <4> QED
        BY <2>3, <4>1, <4>2, <4>3
    <3>3. page' # <<>> /\ page'[Len(page')] = page[Len(page)]
      BY <3>2
    <3> QED
      BY <1>0, <2>1, <3>1, <3>3 DEF AheadInv
  <2> QED
    BY <2>2, <2>3
<1>4. CASE start
  <2>1. saved' = saved /\ cursor' = saved /\ phase' = "fetching"
    BY <1>4 DEF start, remote, None
  <2> QED
    BY <1>0, <2>1 DEF AheadInv
<1>5. CASE Crash
  BY <1>0, <1>5 DEF Crash, AheadInv, remote
<1>6. CASE ~save_cursor /\ ~FetchPage /\ ~HandOver /\ ~start /\ ~Crash
  <2>1. /\ saved' = saved /\ cursor' = cursor /\ page' = page
        /\ phase' = phase \/ (phase \notin {"down", "paging"} /\ phase' \notin {"down", "paging"})
    BY <1>6
    DEF Next, Publish, FetchNothing, FetchBroken, FetchRefused, FetchRaises, Retry, Leave,
        _shutdown, __aexit__, Reenter, remote, reading, vars, control
  <2> QED
    BY <1>0, <2>1 DEF AheadInv
<1> QED
  BY <1>1, <1>2, <1>3, <1>4, <1>5, <1>6

(* The saved cursor never moves back, in whatever way pages are linked.    *)
THEOREM SavedNeverRegressesHolds == Spec => SavedNeverRegresses
<1>1. Init => AheadInv
  BY DEF Init, AheadInv
<1>2. IInv /\ AheadInv /\ [Next]_vars =>
        AheadInv' /\ [ConfigCursor = 0 => saved'.token >= saved.token]_vars
  <2>1. CASE ConfigCursor = 0
    BY <2>1, NextAheadInv
  <2>2. CASE ConfigCursor # 0
    BY <2>2 DEF AheadInv
  <2> QED
    BY <2>1, <2>2
<1> QED
  BY <1>1, <1>2, Invariance, PTL DEF Spec, SavedNeverRegresses

(* Once a cursor with the rest of a link's query is saved, nothing is      *)
(* stored or saved any more: all that a start can ask for is refused.      *)
LEMMA NextStuckInv ==
  ASSUME IInv, StuckInv, ConfigCursor = 0, [Next]_vars
  PROVE  StuckInv' /\ (saved.query => saved' = saved /\ stored' = stored)
<1>1. CASE save_cursor
  <2>1. /\ phase = "saving" /\ phase' \in {"waiting", "over"} /\ cursor' = cursor
        /\ saved' = IF cursor = None THEN saved ELSE cursor
        /\ buffer' = buffer /\ stored' = stored /\ buffer = <<>>
    BY <1>1 DEF save_cursor, reading, IInv, BufferInv
  <2>2. saved'.query => saved' = cursor
    <3>1. CASE cursor = None /\ saved.query
      <4>1. cursor = saved
        BY <2>1, <3>1 DEF StuckInv
      <4> QED
        BY <3>1, <4>1, NoneIs
    <3> QED
      BY <2>1, <3>1
  <2>3. StuckInv'
    BY <2>1, <2>2 DEF StuckInv
  <2> QED
    BY <2>1, <2>3 DEF StuckInv
<1>2. CASE __aexit__
  <2>1. /\ phase = "closing" /\ phase' = "saving" /\ saved' = saved /\ cursor' = cursor
        /\ buffer' = <<>>
    BY <1>2 DEF __aexit__, reading, Flushed
  <2>2. saved.query => stored' = stored
    BY <1>2, RangeOfEmpty DEF __aexit__, Flushed, StuckInv
  <2> QED
    BY <2>1, <2>2 DEF StuckInv
<1>3. CASE start
  <2>1. /\ saved' = saved /\ stored' = stored /\ cursor' = saved /\ builder' = saved
        /\ phase' = "fetching" /\ buffer' = <<>>
    BY <1>3 DEF start, remote, None
  <2> QED
    BY <2>1 DEF StuckInv
<1>4. CASE FetchPage
  <2>1. /\ phase = "fetching" /\ ~builder.query /\ saved' = saved /\ stored' = stored
    BY <1>4 DEF FetchPage, remote
  <2>2. ~saved.query
    BY <2>1 DEF StuckInv
  <2> QED
    BY <2>1, <2>2 DEF StuckInv
<1>5. CASE HandOver
  <2>1. phase = "paging" /\ saved' = saved
    BY <1>5 DEF HandOver
  <2>2. ~saved.query
    BY <2>1 DEF StuckInv
  <2> QED
    BY <2>1, <2>2 DEF StuckInv
<1>6. CASE Crash
  <2>1. saved' = saved /\ stored' = stored /\ phase' = "down" /\ buffer' = <<>>
    BY <1>6 DEF Crash, remote
  <2> QED
    BY <2>1 DEF StuckInv
<1>7. CASE Reenter
  <2>1. /\ saved' = saved /\ stored' = stored /\ cursor' = cursor /\ builder' = cursor
        /\ phase = "waiting" /\ phase' = "fetching" /\ buffer' = buffer
    BY <1>7 DEF Reenter, remote
  <2> QED
    BY <2>1 DEF StuckInv
<1>8. CASE /\ ~save_cursor /\ ~__aexit__ /\ ~start /\ ~FetchPage /\ ~HandOver /\ ~Crash
           /\ ~Reenter
  <2>1. /\ saved' = saved /\ stored' = stored /\ cursor' = cursor /\ builder' = builder
        /\ buffer' = buffer
        /\ phase' = phase \/ (phase \in {"fetching", "waiting"} /\ phase' \in {"closing", "over"})
    BY <1>8
    DEF Next, Publish, FetchNothing, FetchBroken, FetchRefused, FetchRaises, Retry, Leave,
        _shutdown, remote, reading, vars, control
  <2> QED
    BY <2>1 DEF StuckInv
<1> QED
  BY <1>1, <1>2, <1>3, <1>4, <1>5, <1>6, <1>7, <1>8

THEOREM StuckForGoodHolds == Spec => StuckForGood
<1>1. Init => StuckInv
  BY NoneIs DEF Init, StuckInv
<1>2. IInv /\ StuckInv /\ [Next]_vars =>
        StuckInv' /\ [ConfigCursor = 0 /\ saved.query => saved' = saved /\ stored' = stored]_vars
  <2>1. CASE ConfigCursor = 0
    BY <2>1, NextStuckInv
  <2>2. CASE ConfigCursor # 0
    BY <2>2 DEF StuckInv
  <2> QED
    BY <2>1, <2>2
<1> QED
  BY <1>1, <1>2, Invariance, PTL DEF Spec, StuckForGood

-----------------------------------------------------------------------------
(* Sizes.                                                                  *)

(* A batch holds no more records than its length.                          *)
LEMMA RangeIsSmall ==
  ASSUME NEW s \in Seq(Token)
  PROVE  IsFiniteSet(Range(s)) /\ Cardinality(Range(s)) <= Len(s)
<1>1. Len(s) \in Nat /\ DOMAIN s = 1..Len(s)
  OBVIOUS
<1>2. s \in [1..Len(s) -> Range(s)]
  BY <1>1 DEF Range
<1>3. s \in Surjection(1..Len(s), Range(s))
  BY <1>1, <1>2 DEF Surjection, Range
<1>4. IsFiniteSet(1..Len(s)) /\ Cardinality(1..Len(s)) = Len(s)
  BY <1>1, FS_Interval
<1> QED
  BY <1>3, <1>4, FS_Surjection

(* What a flush does is to store or to lose a batch.                       *)
LEMMA FlushIsStoreOrLose ==
  ASSUME TypeOK, NEW batch \in Seq(Token), Flushed(batch)
  PROVE  \/ stored' = stored \cup Range(batch) /\ lost' = lost /\ faults' = faults
         \/ /\ stored' = stored /\ faults' = faults + 1
            /\ lost' = lost \cup (Range(batch) \ stored)
BY DEF Flushed, Fault, counters

(* Any step stores a set of records of at most a chunk, or loses one to a  *)
(* failure, or leaves both alone.                                          *)
Change(S) ==
  /\ S \subseteq Token /\ IsFiniteSet(S) /\ Cardinality(S) <= ChunkSize
  /\ \/ stored' = stored \cup S /\ lost' = lost /\ faults' \in {faults, faults + 1}
     \/ /\ stored' = stored /\ lost' = lost \cup S /\ faults' = faults + 1
        /\ S \cap stored = {}

LEMMA BatchChanges ==
  ASSUME IInv, NEW batch \in Seq(Token), Len(batch) <= ChunkSize, Flushed(batch)
  PROVE  \E S \in SUBSET Token : Change(S)
<1> DEFINE B == Range(batch)  C == Range(batch) \ stored
<1>1. /\ B \subseteq Token /\ IsFiniteSet(B) /\ Cardinality(B) <= ChunkSize
      /\ C \subseteq Token /\ IsFiniteSet(C) /\ Cardinality(C) <= ChunkSize
      /\ C \cap stored = {}
  <2>1. B \subseteq Token /\ IsFiniteSet(B) /\ Cardinality(B) <= Len(batch)
    BY RangeOfTokens, RangeIsSmall
  <2>2. IsFiniteSet(C) /\ Cardinality(C) <= Cardinality(B)
    BY <2>1, FS_Subset
  <2>3. Cardinality(B) \in Nat /\ Cardinality(C) \in Nat /\ Len(batch) \in Nat
    BY <2>1, <2>2, FS_CardinalityType
  <2> QED
    BY <2>1, <2>2, <2>3, StreamAssumption
<1>2. faults \in Nat
  BY StreamAssumption DEF IInv, TypeOK
<1>3. \/ stored' = stored \cup B /\ lost' = lost /\ faults' = faults
      \/ stored' = stored /\ faults' = faults + 1 /\ lost' = lost \cup C
  BY FlushIsStoreOrLose DEF IInv
<1>4. CASE stored' = stored \cup B /\ lost' = lost /\ faults' = faults
  <2>1. Change(B)
    BY <1>1, <1>2, <1>4 DEF Change
  <2> QED
    BY <1>1, <2>1
<1>5. CASE stored' = stored /\ faults' = faults + 1 /\ lost' = lost \cup C
  <2>1. Change(C)
    BY <1>1, <1>5 DEF Change
  <2> QED
    BY <1>1, <2>1
<1> QED
  BY <1>3, <1>4, <1>5

LEMMA NextChanges ==
  ASSUME IInv, [Next]_vars
  PROVE  \E S \in SUBSET Token : Change(S)
<1>0. faults \in Nat /\ ChunkSize \in Nat \ {0}
  BY StreamAssumption DEF IInv, TypeOK
<1>1. CASE HandOver
  <2> DEFINE r == Head(page)  filled == Append(buffer, r)
  <2>1. r \in Token /\ page # <<>>
    <3>1. page \in Seq(Token) /\ page # <<>>
      BY <1>1 DEF IInv, TypeOK, PageInv, HandOver
    <3> QED
      BY <3>1
  <2>2. filled \in Seq(Token) /\ Len(filled) <= ChunkSize
    <3>1. filled \in Seq(Token) /\ Len(filled) = Len(buffer) + 1 /\ Len(buffer) \in Nat
      BY <2>1, RangeOfAppend DEF IInv, TypeOK
    <3> QED
      BY <1>0, <3>1 DEF IInv, BufferInv
  <2>3. CASE Flushed(filled)
    BY <2>2, <2>3, BatchChanges
  <2>4. CASE UNCHANGED <<stored, lost, counters>>
    <3>1. Change({})
      BY <1>0, <2>4, FS_EmptySet DEF Change, counters
    <3> QED
      BY <3>1
  <2>5. CASE Fault /\ lost' = lost \cup ({r} \ stored) /\ UNCHANGED <<buffer, stored>>
    <3>1. IsFiniteSet({r}) /\ Cardinality({r}) = 1
      BY FS_Singleton
    <3>2. IsFiniteSet({r} \ stored) /\ Cardinality({r} \ stored) <= 1
      BY <3>1, FS_Subset
    <3>3. Cardinality({r} \ stored) <= ChunkSize
      BY <1>0, <3>2, FS_CardinalityType
    <3>4. Change({r} \ stored)
      BY <2>1, <2>5, <3>2, <3>3 DEF Change, Fault
    <3> QED
      BY <2>1, <3>4
  <2>6. Flushed(filled) \/ UNCHANGED <<stored, lost, counters>>
          \/ (Fault /\ lost' = lost \cup ({r} \ stored) /\ UNCHANGED <<buffer, stored>>)
    BY <1>1 DEF HandOver, _process_effect, add
  <2> QED
    BY <2>3, <2>4, <2>5, <2>6
<1>2. CASE __aexit__
  <2>1. buffer \in Seq(Token) /\ Len(buffer) <= ChunkSize /\ Flushed(buffer)
    BY <1>0, <1>2 DEF __aexit__, IInv, TypeOK, BufferInv
  <2> QED
    BY <2>1, BatchChanges
<1>3. CASE ~HandOver /\ ~__aexit__
  <2>1. stored' = stored /\ lost' = lost /\ faults' \in {faults, faults + 1}
    BY <1>0, <1>3
    DEF Next, Publish, start, FetchPage, FetchNothing, FetchBroken, FetchRefused,
        FetchRaises, Retry, Fault, _shutdown, save_cursor, Reenter, Crash, remote, counters, vars
  <2>2. Change({})
    BY <1>0, <2>1, FS_EmptySet DEF Change
  <2> QED
    BY <2>2
<1> QED
  BY <1>1, <1>2, <1>3

(* A failure costs at most one chunk of records.                           *)
THEOREM LossPerFailureBoundedHolds == Spec => []LossPerFailureBounded
<1> DEFINE L == IsFiniteSet(lost) /\ LossPerFailureBounded
<1>1. Init => L
  BY FS_EmptySet, StreamAssumption DEF Init, LossPerFailureBounded
<1>2. L /\ IInv /\ [Next]_vars => L'
  <2> SUFFICES ASSUME L, IInv, [Next]_vars PROVE L'
    OBVIOUS
  <2>1. PICK S \in SUBSET Token : Change(S)
    BY NextChanges
  <2>2. /\ IsFiniteSet(lost \cup S)
        /\ Cardinality(lost \cup S) <= Cardinality(lost) + ChunkSize
    <3>1. IsFiniteSet(S) /\ Cardinality(S) <= ChunkSize
      BY <2>1 DEF Change
    <3>2. /\ IsFiniteSet(lost \cup S) /\ IsFiniteSet(lost \cap S)
          /\ Cardinality(lost \cup S)
               = Cardinality(lost) + Cardinality(S) - Cardinality(lost \cap S)
      BY <3>1, FS_Union, FS_Subset
    <3>3. /\ Cardinality(lost \cup S) \in Nat /\ Cardinality(lost) \in Nat
          /\ Cardinality(S) \in Nat /\ Cardinality(lost \cap S) \in Nat
      BY <3>1, <3>2, FS_CardinalityType
    <3> QED
      BY <3>1, <3>2, <3>3, StreamAssumption
  <2>3. /\ faults \in Nat /\ ChunkSize \in Nat /\ faults' \in Nat
        /\ Cardinality(lost) \in Nat /\ Cardinality(lost \cup S) \in Nat
    BY <2>2, NextIInv, FS_CardinalityType, StreamAssumption DEF IInv, TypeOK
  <2>4. CASE lost' = lost /\ faults' \in {faults, faults + 1}
    <3>1. ChunkSize * (faults + 1) = ChunkSize * faults + ChunkSize
      BY <2>3
    <3>2. ChunkSize * faults \in Nat
      BY <2>3
    <3> QED
      BY <2>3, <2>4, <3>1, <3>2 DEF LossPerFailureBounded
  <2>5. CASE lost' = lost \cup S /\ faults' = faults + 1
    <3>1. ChunkSize * (faults + 1) = ChunkSize * faults + ChunkSize
      BY <2>3
    <3>2. ChunkSize * faults \in Nat
      BY <2>3
    <3> QED
      BY <2>2, <2>3, <2>5, <3>1, <3>2 DEF LossPerFailureBounded
  <2> QED
    BY <2>1, <2>4, <2>5 DEF Change
<1> QED
  BY <1>1, <1>2, Invariance, PTL DEF Spec

(* Every step stores or loses at most a chunk, saves a covered position, or *)
(* is not visible.                                                          *)
LEMMA PromiseStep ==
  ASSUME IInv, [Next]_vars PROVE [Promise!Next]_(Promise!vars)
<1>1. CASE save_cursor
  <2>1. stored' = stored /\ lost' = lost /\ saved' \in {saved, cursor}
    BY <1>1 DEF save_cursor
  <2>2. CASE saved' = saved
    BY <2>1, <2>2 DEF Promise!vars
  <2>3. CASE saved' = cursor
    <3>1. (ConfigCursor + 1)..cursor.token \subseteq stored \cup lost
      BY <1>1, RangeOfEmpty
      DEF IInv, CursorInv, Covered, Handled, BufferInv, save_cursor
    <3>2. cursor.token \in 0..MaxToken
      BY PositionIs DEF IInv, TypeOK
    <3>3. Promise!Save(cursor.token)
      BY <2>1, <2>3, <3>1 DEF Promise!Save
    <3> QED
      BY <3>2, <3>3 DEF Promise!Next
  <2> QED
    BY <2>1, <2>2, <2>3
<1>2. CASE ~save_cursor
  <2>1. saved' = saved
    BY <1>2
    DEF Next, Publish, start, FetchPage, FetchNothing, FetchBroken, FetchRefused,
        FetchRaises, Retry, HandOver, _shutdown, __aexit__, Reenter, Crash, remote, vars
  <2>2. PICK S \in SUBSET Token : Change(S)
    BY NextChanges
  <2>3. S \in {X \in SUBSET Token : Cardinality(X) <= ChunkSize}
    BY <2>2 DEF Change
  <2>4. Promise!Store(S) \/ Promise!Lose(S)
    BY <2>1, <2>2 DEF Change, Promise!Store, Promise!Lose
  <2> QED
    BY <2>3, <2>4 DEF Promise!Next
<1> QED
  BY <1>1, <1>2

(* Nothing is stored, lost or saved at first.                              *)
LEMMA PromiseInit == Init => Promise!Init
BY NoneIs DEF Init, Promise!Init

(* The service implements ResumableStream.                                  *)
THEOREM Refinement == Spec => KeepsPromise
BY PromiseInit, PromiseStep, Invariance, PTL DEF Spec, KeepsPromise, Promise!Spec

-----------------------------------------------------------------------------
(***************************************************************************)
(* The stream in the company of MultiHorizonService: the state file has    *)
(* other writers, which put an older position of the stream back (the copy *)
(* that another service's manager read at its start) or none (the ledger   *)
(* worker).  MultiHorizonService_proofs shows that they do nothing else    *)
(* (OnlyOwnersAdvanceHolds).  furthest is the furthest position the file   *)
(* ever had.                                                               *)
(***************************************************************************)
VARIABLE furthest

shared_vars == <<vars, furthest>>

OwnStep ==
  Next /\ furthest' = IF saved'.token > furthest THEN saved'.token ELSE furthest

Overwrite ==
  /\ saved' \in [token: 0..furthest, query: BOOLEAN]
  /\ UNCHANGED <<head, stored, reading, control, counters, buffer, lost, furthest>>

SharedSpec == Init /\ furthest = 0 /\ [][OwnStep \/ Overwrite]_shared_vars

(* Whatever position comes back, the database is not behind it.            *)
FurthestInv ==
  /\ furthest \in 0..MaxToken
  /\ (ConfigCursor + 1)..furthest \subseteq stored \cup lost

(* The stream's own step raises furthest to a position it has covered.     *)
LEMMA OwnStepFurthest ==
  ASSUME IInv, FurthestInv, OwnStep
  PROVE  IInv' /\ FurthestInv'
<1>1. [Next]_vars /\ furthest' \in {saved'.token, furthest}
  BY DEF OwnStep
<1>2. IInv'
  BY <1>1, NextIInv
<1>3. PICK S \in SUBSET Token : Change(S)
  BY <1>1, NextChanges
<1>4. stored \cup lost \subseteq stored' \cup lost'
  BY <1>3 DEF Change
<1>5. /\ saved'.token \in 0..MaxToken
      /\ (ConfigCursor + 1)..saved'.token \subseteq stored' \cup lost'
  BY <1>2 DEF Position, IInv, TypeOK, SavedIsAccountedFor
<1> QED
  BY <1>1, <1>2, <1>4, <1>5 DEF FurthestInv

(* An older position is as safe as the furthest one.                       *)
LEMMA OverwriteFurthest ==
  ASSUME IInv, FurthestInv, Overwrite
  PROVE  IInv' /\ FurthestInv' /\ [Promise!Next]_(Promise!vars)
<1>1. /\ saved' \in [token: 0..furthest, query: BOOLEAN] /\ furthest' = furthest
      /\ UNCHANGED <<head, stored, phase, outcome, cursor, builder, page, buffer,
                     retries, attempts, lost, faults, starts>>
  BY DEF Overwrite, reading, control, counters
<1>2. /\ saved' \in Position /\ saved'.token \in 0..MaxToken
      /\ (ConfigCursor + 1)..saved'.token \subseteq (ConfigCursor + 1)..furthest
  <2>1. furthest \in 0..MaxToken
    BY DEF FurthestInv
  <2>2. saved' \in Position /\ saved'.token \in 0..furthest
    BY <1>1, <2>1, StreamAssumption DEF Position
  <2> QED
    BY <2>1, <2>2, StreamAssumption
<1>3. (ConfigCursor + 1)..saved'.token \subseteq stored \cup lost
  BY <1>2 DEF FurthestInv
<1>4. TypeOK' /\ SavedIsAccountedFor'
  BY <1>1, <1>2, <1>3 DEF IInv, TypeOK, SavedIsAccountedFor
<1>5. CursorInv' /\ PageInv' /\ BufferInv' /\ CountInv' /\ BaseInv' /\ ReachInv' /\ RequestsFollowCursor'
  BY <1>1
  DEF IInv, CursorInv, Covered, Handled, PageInv, BufferInv, CountInv, BaseInv, ReachInv,
      RequestsFollowCursor
<1>6. FurthestInv'
  BY <1>1 DEF FurthestInv
<1>7. Promise!Save(saved'.token)
  BY <1>1, <1>3 DEF Promise!Save
<1> QED
  BY <1>2, <1>4, <1>5, <1>6, <1>7 DEF IInv, Promise!Next

(* One step of either side keeps the invariant and the promise.            *)
LEMMA SharedStep ==
  ASSUME IInv, FurthestInv, [OwnStep \/ Overwrite]_shared_vars
  PROVE  IInv' /\ FurthestInv' /\ [Promise!Next]_(Promise!vars)
<1>1. CASE OwnStep
  BY <1>1, OwnStepFurthest, PromiseStep DEF OwnStep
<1>2. CASE Overwrite
  BY <1>2, OverwriteFurthest
<1>3. CASE UNCHANGED shared_vars
  <2>1. UNCHANGED vars /\ UNCHANGED furthest
    BY <1>3 DEF shared_vars
  <2>2. UNCHANGED <<stored, lost, saved>>
    BY <2>1 DEF vars, remote
  <2>3. FurthestInv'
    BY <2>1, <2>2 DEF FurthestInv
  <2> QED
    BY <2>1, <2>2, <2>3, StutterIInv DEF Promise!vars
<1> QED
  BY <1>1, <1>2, <1>3

(* So the safety of one stream does not depend on being the only writer of *)
(* the file: its cursor and whatever position the file holds stay covered, *)
(* and it keeps its promise.                                               *)
THEOREM SafeInSharedFile ==
  SharedSpec => [](CursorAccountsForRecords /\ SavedIsAccountedFor) /\ KeepsPromise
<1>1. Init /\ furthest = 0 => IInv /\ FurthestInv
  <2>1. (ConfigCursor + 1)..0 = {} /\ 0 \in 0..MaxToken
    BY StreamAssumption
  <2> QED
    BY <2>1, InitIInv DEF FurthestInv
<1>2. IInv => CursorAccountsForRecords /\ SavedIsAccountedFor
  BY DEF IInv, CursorInv, Covered, CursorAccountsForRecords
<1> QED
  BY <1>1, <1>2, PromiseInit, SharedStep, PTL DEF SharedSpec, KeepsPromise, Promise!Spec
=============================================================================
