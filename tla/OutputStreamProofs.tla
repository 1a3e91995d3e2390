-------------------------- MODULE OutputStreamProofs --------------------------
(***************************************************************************)
(* Proofs about OutputStream: what the user sees of a command's output is  *)
(* in order and complete, and input freezes it, whichever workers publish. *)
(***************************************************************************)
EXTENDS OutputStream, NaturalSets, SequenceTheorems, TLAPS

Prefix(s, t) == Len(s) <= Len(t) /\ \A x \in 1..Len(s) : s[x] = t[x]

(* The last chunk that on_stream has put into the buffer.                  *)
Last(m) == IF work[m][Out] = "lock" THEN printed[m] - 1 ELSE printed[m]

(* The handler of a command holds the shell's lock until it is done; what  *)
(* becomes of its result.                                                  *)
Holders ==
  \A m \in Messages :
    /\ pc[m] \in {"running", "answering"} => shellLock = m
    /\ pc[m] = "running" /\ ended[m] = "no" => interactive
    /\ pc[m] \in {"idle", "rotating"} => ended[m] = "no"
    /\ ended[m] = "result" => work[m][Out] = "none"
    /\ work[m][Flush] # "none" => pc[m] = "running" /\ ended[m] = "result"

(* Only the worker that publishes holds the stream's lock over an await.   *)
LockIsPublish ==
  \A m \in Messages :
    /\ sending[m] # None => work[m][sending[m].by] = "publishing"
    /\ \A w \in Workers : work[m][w] = "publishing" => sending[m] # None /\ sending[m].by = w

(* A suspended publish shows the buffer as it is: nothing is put into it   *)
(* or taken out meanwhile.                                                 *)
SendsTheBuffer ==
  \A m \in Messages :
    /\ Len(buffer[m]) <= printed[m]
    /\ sending[m] # None =>
         /\ sending[m].pages = Pages(buffer[m]) /\ sending[m].at \in 1..Len(Pages(buffer[m]))
         /\ sending[m].call = "edit" => post[m][sending[m].at].msg # 0

(* The messages that a stream still edits are its own, each of one page,   *)
(* and show a beginning of that page.                                      *)
PostedIsShown ==
  \A m \in Messages : \A p \in 1..MaxPages :
    /\ post[m][p].msg = 0 => post[m][p].text = <<>>
    /\ post[m][p].msg # 0 =>
         /\ post[m][p].msg \in 1..Len(chat) /\ chat[post[m][p].msg].of = m
         /\ p <= Len(Pages(buffer[m])) /\ Prefix(chat[post[m][p].msg].text, Pages(buffer[m])[p])
         /\ \A q \in 1..MaxPages : post[m][q].msg = post[m][p].msg => q = p

(* After a flush nothing is left to be sent.                               *)
Settled(m) == sending[m] = None /\ (buffer[m] = <<>> \/ lastPages[m] = Pages(buffer[m]))
FlushSettles == \A m \in Messages : ended[m] = "result" /\ pc[m] # "running" => Settled(m)

(* The buffer holds the last chunks, in order, while nothing was cut off.  *)
Whole(m) == interactive \/ ended[m] = "result"
BufferRuns ==
  \A m \in Messages : Whole(m) =>
    /\ Len(buffer[m]) <= Last(m)
    /\ \A j \in 1..Len(buffer[m]) : buffer[m][j] = Last(m) - Len(buffer[m]) + j

(* As long as no request raised: what is known of the posted pages is true.*)
PostsAreKnown(m) ==
  /\ \A p \in 1..MaxPages : post[m][p].msg # 0 => chat[post[m][p].msg].text = post[m][p].text
  /\ \A p \in 1..Len(lastPages[m]) :
       p <= MaxPages /\ post[m][p].msg # 0 /\ Prefix(lastPages[m][p], post[m][p].text)
  /\ \A p, q \in 1..MaxPages : p < q /\ post[m][q].msg # 0 =>
       post[m][p].msg # 0 /\ post[m][p].msg < post[m][q].msg
  /\ sending[m] # None =>
       /\ \A p \in 1..(sending[m].at - 1) : post[m][p].text = sending[m].pages[p]
       /\ sending[m].call = (IF post[m][sending[m].at].msg = 0 THEN "send" ELSE "edit")
PostedInOrder == \A m \in Messages : failures = 0 /\ Whole(m) => PostsAreKnown(m)

(* The stream's earlier messages stand above, with earlier chunks.         *)
Posted(m, i) == \E p \in 1..MaxPages : post[m][p].msg = i
OlderIsAbove ==
  \A m \in Messages : failures = 0 /\ Whole(m) =>
    \A i \in 1..Len(chat) : chat[i].of = m /\ ~Posted(m, i) =>
      /\ \A k \in Chunks(i) : k <= Last(m) - Len(buffer[m])
      /\ \A p \in 1..MaxPages : post[m][p].msg # 0 => i < post[m][p].msg

IndInv == /\ TypeOK /\ Holders /\ LockIsPublish /\ SendsTheBuffer /\ PostedIsShown
          /\ FlushSettles /\ BufferRuns /\ PostedInOrder /\ OlderIsAbove /\ ShownOnceInOrder

-----------------------------------------------------------------------------
(* Pages.                                                                  *)

LEMMA Division ==
  ASSUME NEW a \in Nat, NEW b \in Nat \ {0}
  PROVE  a \div b \in Nat /\ b * (a \div b) <= a /\ a < b * (a \div b) + b
BY Z3

LEMMA Times ==
  ASSUME NEW a \in Nat, NEW b \in Nat
  PROVE  a * b \in Nat /\ a * b = b * a /\ (a + 1) * b = a * b + b
BY Z3

LEMMA TimesMonotonic ==
  ASSUME NEW a \in Nat, NEW b \in Nat, NEW c \in Nat, a <= b
  PROVE  a * c <= b * c
BY Z3

LEMMA TimesCancel ==
  ASSUME NEW a \in Nat, NEW b \in Nat, NEW c \in Nat \ {0}, a * c < b * c
  PROVE  a < b
BY Z3

(* Page p begins after chunk Before(p).                                    *)
Before(p) == (p - 1) * PageSize

LEMMA Befores ==
  ASSUME NEW p \in Nat \ {0}
  PROVE  /\ Before(p) \in Nat /\ p * PageSize = Before(p) + PageSize
         /\ Before(p + 1) = Before(p) + PageSize
         /\ \A q \in Nat : p < q => Before(p) + PageSize <= Before(q)
<1>1. p - 1 \in Nat /\ PageSize \in Nat \ {0}
  BY BoundsAssumption
<1>2. Before(p) \in Nat /\ p * PageSize = Before(p) + PageSize
  BY <1>1, Times DEF Before
<1>3. ASSUME NEW q \in Nat, p < q PROVE Before(p) + PageSize <= Before(q)
  BY <1>1, <1>2, <1>3, TimesMonotonic DEF Before
<1> QED BY <1>1, <1>2, <1>3 DEF Before

(* There are as many pages as hold the text.                               *)
LEMMA PageCount ==
  ASSUME NEW n \in Nat
  PROVE  LET c == (n + PageSize - 1) \div PageSize IN
         c \in Nat /\ \A p \in Nat \ {0} : p <= c <=> Before(p) < n
<1> DEFINE c == (n + PageSize - 1) \div PageSize
<1>1. PageSize \in Nat \ {0} /\ n + PageSize - 1 \in Nat
  BY BoundsAssumption
<1>2. /\ c \in Nat /\ PageSize * c <= n + PageSize - 1 /\ n + PageSize - 1 < PageSize * c + PageSize
  BY <1>1, Division
<1>3. PageSize * c = c * PageSize /\ c * PageSize \in Nat
  BY <1>1, <1>2, Times
<1>4. ASSUME NEW p \in Nat \ {0}, p <= c PROVE Before(p) < n
  <2>1. p * PageSize <= c * PageSize /\ p * PageSize \in Nat
    BY <1>1, <1>2, <1>4, TimesMonotonic, Times
  <2>2. p * PageSize = Before(p) + PageSize /\ Before(p) \in Nat
    BY Befores
  <2> QED BY <1>1, <1>2, <1>3, <2>1, <2>2
<1>5. ASSUME NEW p \in Nat \ {0}, Before(p) < n PROVE p <= c
  <2>1. p * PageSize = Before(p) + PageSize /\ Before(p) \in Nat /\ p - 1 \in Nat
        /\ Before(p) = (p - 1) * PageSize
    BY Befores DEF Before
  <2>2. (p - 1) * PageSize < c * PageSize
    BY <1>1, <1>2, <1>3, <1>5, <2>1
  <2>3. p - 1 < c
    BY <1>1, <1>2, <2>1, <2>2, TimesCancel
  <2> QED BY <1>2, <2>3
<1> QED BY <1>2, <1>4, <1>5

(* A text is in its pages in order: chunk x of page p is chunk Before(p)+x.*)
LEMMA PagesOf ==
  ASSUME NEW b \in Text
  PROVE  /\ Pages(b) \in Seq(Text)
         /\ \A p \in Nat \ {0} : p <= Len(Pages(b)) <=> Before(p) < Len(b)
         /\ \A p \in 1..Len(Pages(b)) :
              /\ Len(Pages(b)[p]) \in 1..PageSize
              /\ \A x \in Nat \ {0} : x <= Len(Pages(b)[p]) <=>
                                        x <= PageSize /\ Before(p) + x <= Len(b)
              /\ \A x \in 1..Len(Pages(b)[p]) : Pages(b)[p][x] = b[Before(p) + x]
<1> DEFINE c == (Len(b) + PageSize - 1) \div PageSize
           Upto(p) == IF p * PageSize < Len(b) THEN p * PageSize ELSE Len(b)
<1>0. PageSize \in Nat \ {0} /\ Len(b) \in Nat /\ \A i \in 1..Len(b) : b[i] \in 1..MaxChunks
  BY BoundsAssumption, LenProperties, ElementOfSeq DEF Text
<1>1. c \in Nat /\ \A p \in Nat \ {0} : p <= c <=> Before(p) < Len(b)
  BY <1>0, PageCount
<1>2. Pages(b) = [i \in 1..c |-> SubSeq(b, Before(i) + 1, Upto(i))]
  BY DEF Pages, Before
<1>3. ASSUME NEW p \in 1..c
      PROVE  LET s == SubSeq(b, Before(p) + 1, Upto(p)) IN
             /\ s \in Text /\ Len(s) \in 1..PageSize
             /\ \A x \in Nat \ {0} : x <= Len(s) <=> x <= PageSize /\ Before(p) + x <= Len(b)
             /\ \A x \in 1..Len(s) : s[x] = b[Before(p) + x]
  <2>1. Before(p) \in Nat /\ p * PageSize = Before(p) + PageSize /\ Before(p) < Len(b)
    BY <1>1, Befores
  <2>2. /\ Upto(p) \in Nat /\ Upto(p) <= Len(b) /\ Before(p) + 1 <= Upto(p)
        /\ Upto(p) <= Before(p) + PageSize
        /\ Upto(p) = Before(p) + PageSize \/ Upto(p) = Len(b)
    BY <1>0, <2>1
  <2>3. \A i \in (Before(p) + 1)..Upto(p) : b[i] \in 1..MaxChunks
    BY <1>0, <2>1, <2>2
  <2> DEFINE s == SubSeq(b, Before(p) + 1, Upto(p))
  <2>4. /\ s \in Text /\ Len(s) = Upto(p) - Before(p)
        /\ \A x \in 1..(Upto(p) - Before(p)) : s[x] = b[Before(p) + x]
    <3> HIDE DEF Upto
    <3> QED BY <2>1, <2>2, <2>3, SubSeqProperties DEF Text
  <2> HIDE DEF s, Upto
  <2>5. Len(s) \in 1..PageSize
    BY <1>0, <2>1, <2>2, <2>4
  <2>6. ASSUME NEW x \in Nat \ {0}
        PROVE  x <= Len(s) <=> x <= PageSize /\ Before(p) + x <= Len(b)
    BY <1>0, <2>1, <2>2, <2>4
  <2> QED BY <2>4, <2>5, <2>6 DEF s
<1> DEFINE page(p) == SubSeq(b, Before(p) + 1, Upto(p))
<1>4. \A p \in 1..c : page(p) \in Text
  BY <1>3
<1> HIDE DEF Upto, page, c
<1>5. Pages(b) = [i \in 1..c |-> page(i)]
  BY <1>2 DEF page, Upto
<1>6. Pages(b) \in Seq(Text) /\ Len(Pages(b)) = c
  BY <1>1, <1>4, <1>5
<1>7. ASSUME NEW p \in 1..Len(Pages(b))
      PROVE  /\ Len(Pages(b)[p]) \in 1..PageSize
             /\ \A x \in Nat \ {0} : x <= Len(Pages(b)[p]) <=>
                                        x <= PageSize /\ Before(p) + x <= Len(b)
             /\ \A x \in 1..Len(Pages(b)[p]) : Pages(b)[p][x] = b[Before(p) + x]
  <2>1. p \in 1..c /\ Pages(b)[p] = page(p)
    BY <1>5, <1>6
  <2> QED BY <1>3, <2>1 DEF page, Upto
<1> QED BY <1>1, <1>6, <1>7 DEF c

(* Every chunk is on a page.                                               *)
LEMMA EveryChunk ==
  ASSUME NEW b \in Text, NEW j \in 1..Len(b)
  PROVE  \E p \in 1..Len(Pages(b)) : \E x \in 1..Len(Pages(b)[p]) : Pages(b)[p][x] = b[j]
<1> DEFINE d == (j - 1) \div PageSize
<1>0. PageSize \in Nat \ {0} /\ Len(b) \in Nat /\ j - 1 \in Nat
  BY BoundsAssumption, LenProperties DEF Text
<1>1. d \in Nat /\ PageSize * d <= j - 1 /\ j - 1 < PageSize * d + PageSize
  BY <1>0, Division
<1> HIDE DEF d
<1>2. Before(d + 1) = PageSize * d /\ PageSize * d \in Nat /\ d + 1 \in Nat \ {0}
  BY <1>0, <1>1, Times DEF Before
<1>3. d + 1 \in 1..Len(Pages(b))
  <2>1. Before(d + 1) < Len(b)
    BY <1>0, <1>1, <1>2
  <2>2. Len(Pages(b)) \in Nat
    BY PagesOf, LenProperties
  <2> QED BY <1>2, <2>1, <2>2, PagesOf
<1> DEFINE x == j - Before(d + 1)
<1>4. x \in Nat \ {0} /\ x <= PageSize /\ Before(d + 1) + x <= Len(b) /\ Before(d + 1) + x = j
  BY <1>0, <1>1, <1>2
<1> HIDE DEF x
<1>5. x \in 1..Len(Pages(b)[d + 1])
  BY <1>0, <1>3, <1>4, PagesOf
<1> QED BY <1>3, <1>4, <1>5, PagesOf

LEMMA PageTypes ==
  ASSUME NEW b \in Text
  PROVE  /\ Len(Pages(b)) \in Nat /\ Pages(b) \in Seq(Text)
         /\ \A p \in 1..Len(Pages(b)) : Pages(b)[p] \in Text /\ Len(Pages(b)[p]) \in Nat
         /\ \A p \in 1..Len(Pages(b)) : Pages(b)[p] # <<>>
         /\ b # <<>> => 1 <= Len(Pages(b))
<1>1. Len(Pages(b)) \in Nat /\ Pages(b) \in Seq(Text)
      /\ \A p \in 1..Len(Pages(b)) : Pages(b)[p] \in Text
  BY PagesOf, LenProperties, ElementOfSeq
<1>2. ASSUME NEW p \in 1..Len(Pages(b)) PROVE Pages(b)[p] # <<>> /\ Len(Pages(b)[p]) \in Nat
  BY PagesOf, EmptySeq, BoundsAssumption
<1>3. ASSUME b # <<>> PROVE 1 <= Len(Pages(b))
  <2>1. Len(b) \in Nat \ {0}
    BY <1>3, EmptySeq DEF Text
  <2>2. Before(1) = 0
    BY BoundsAssumption DEF Before
  <2> QED BY <2>1, <2>2, PagesOf
<1> QED BY <1>1, <1>2, <1>3

LEMMA MaxPagesType == MaxPages \in Nat /\ \A p \in Nat \ {0} : p <= MaxPages <=> Before(p) < MaxChunks
BY BoundsAssumption, PageCount DEF MaxPages

LEMMA PagesFit ==
  ASSUME NEW b \in Text, Len(b) <= MaxChunks
  PROVE  Len(Pages(b)) <= MaxPages
<1>1. Len(b) \in Nat /\ MaxChunks \in Nat /\ Len(Pages(b)) \in Nat
  BY PageTypes, LenProperties, BoundsAssumption DEF Text
<1>2. CASE Len(Pages(b)) = 0
  BY <1>2, MaxPagesType
<1>3. CASE Len(Pages(b)) # 0
  <2>1. Len(Pages(b)) \in Nat \ {0}
    BY <1>1, <1>3
  <2>2. Before(Len(Pages(b))) \in Nat
    BY <2>1, Befores
  <2>3. Before(Len(Pages(b))) < Len(b)
    BY <1>1, <2>1, PagesOf
  <2>4. Before(Len(Pages(b))) < MaxChunks
    BY <1>1, <2>2, <2>3
  <2> QED BY <2>1, <2>4, MaxPagesType
<1> QED BY <1>2, <1>3

(* Another chunk makes the last page grow, or begins another.              *)
LEMMA PagesGrow ==
  ASSUME NEW b \in Text, NEW k \in 1..MaxChunks
  PROVE  /\ Append(b, k) \in Text /\ Len(Append(b, k)) = Len(b) + 1 /\ Len(b) \in Nat
         /\ \A j \in 1..Len(b) : Append(b, k)[j] = b[j]
         /\ Append(b, k)[Len(b) + 1] = k /\ Append(b, k) # <<>>
         /\ \A p \in 1..Len(Pages(b)) : /\ p <= Len(Pages(Append(b, k)))
                                        /\ Prefix(Pages(b)[p], Pages(Append(b, k))[p])
<1> DEFINE a == Append(b, k)
<1>1. a \in Text /\ Len(a) = Len(b) + 1 /\ Len(b) \in Nat /\ a # <<>>
      /\ \A j \in 1..Len(b) : a[j] = b[j]
      /\ a[Len(b) + 1] = k
  BY LenProperties DEF Text
<1> HIDE DEF a
<1>2. ASSUME NEW p \in 1..Len(Pages(b))
      PROVE  p <= Len(Pages(a)) /\ Prefix(Pages(b)[p], Pages(a)[p])
  <2>0. p \in Nat \ {0} /\ Before(p) \in Nat /\ PageSize \in Nat /\ Len(Pages(a)) \in Nat
    <3>1. Len(Pages(a)) \in Nat /\ Len(Pages(b)) \in Nat
      BY <1>1, PageTypes
    <3>2. p \in Nat \ {0}
      BY <3>1
    <3> QED BY <3>1, <3>2, Befores, BoundsAssumption
  <2>1. Before(p) < Len(b)
    BY <2>0, PagesOf
  <2>2. p <= Len(Pages(a))
    BY <1>1, <2>0, <2>1, PagesOf
  <2>3. p \in 1..Len(Pages(a)) /\ Len(Pages(a)[p]) \in Nat /\ Len(Pages(b)[p]) \in Nat
    BY <1>1, <2>0, <2>2, PageTypes
  <2>4. ASSUME NEW x \in 1..Len(Pages(b)[p])
        PROVE  x <= Len(Pages(a)[p]) /\ Pages(b)[p][x] = Pages(a)[p][x]
    <3>1. x \in Nat \ {0} /\ x <= PageSize /\ Before(p) + x <= Len(b)
      <4>1. x \in Nat \ {0} /\ x <= Len(Pages(b)[p])
        BY <2>3
      <4>2. \A z \in Nat \ {0} : z <= Len(Pages(b)[p]) <=> z <= PageSize /\ Before(p) + z <= Len(b)
        BY PagesOf
      <4> QED BY <4>1, <4>2
    <3>2. x <= Len(Pages(a)[p])
      BY <1>1, <2>0, <2>3, <3>1, PagesOf
    <3>3. Pages(b)[p][x] = b[Before(p) + x]
      BY PagesOf
    <3>4. Pages(a)[p][x] = a[Before(p) + x]
      <4>1. x \in 1..Len(Pages(a)[p])
        BY <3>1, <3>2, <2>3
      <4> QED BY <1>1, <2>3, <4>1, PagesOf
    <3> QED BY <1>1, <2>0, <3>1, <3>2, <3>3, <3>4
  <2>5. Len(Pages(b)[p]) <= Len(Pages(a)[p])
    BY <2>3, <2>4
  <2> QED BY <2>2, <2>4, <2>5 DEF Prefix
<1> QED BY <1>1, <1>2 DEF a

(* Earlier pages have earlier chunks.                                      *)
LEMMA PagesInOrder ==
  ASSUME NEW b \in Text, NEW p \in 1..Len(Pages(b)), NEW q \in 1..Len(Pages(b)),
         NEW x \in 1..Len(Pages(b)[p]), NEW y \in 1..Len(Pages(b)[q])
  PROVE  /\ Before(p) + x \in 1..Len(b) /\ Pages(b)[p][x] = b[Before(p) + x]
         /\ p < q => Before(p) + x < Before(q) + y
<1>1. p \in Nat \ {0} /\ q \in Nat \ {0} /\ x \in Nat \ {0} /\ y \in Nat \ {0}
      /\ Before(p) \in Nat /\ Before(q) \in Nat /\ Len(b) \in Nat /\ PageSize \in Nat
  <2>1. Len(Pages(b)) \in Nat /\ Len(b) \in Nat /\ PageSize \in Nat
    BY PageTypes, LenProperties, BoundsAssumption DEF Text
  <2>2. p \in Nat \ {0} /\ q \in Nat \ {0}
    BY <2>1
  <2>3. Len(Pages(b)[p]) \in Nat /\ Len(Pages(b)[q]) \in Nat
    BY PageTypes
  <2>4. x \in Nat \ {0} /\ y \in Nat \ {0}
    BY <2>3
  <2>5. Before(p) \in Nat /\ Before(q) \in Nat
    BY <2>2, Befores
  <2> QED BY <2>1, <2>2, <2>4, <2>5
<1>2. x <= PageSize /\ Before(p) + x <= Len(b)
  <2>1. \A z \in Nat \ {0} : z <= Len(Pages(b)[p]) <=> z <= PageSize /\ Before(p) + z <= Len(b)
    BY PagesOf
  <2>2. x <= Len(Pages(b)[p])
    BY PageTypes
  <2> QED BY <1>1, <2>1, <2>2
<1>3. p < q => Before(p) + PageSize <= Before(q)
  BY <1>1, Befores
<1>4. Pages(b)[p][x] = b[Before(p) + x]
  BY PagesOf
<1>5. p < q => Before(p) + x < Before(q) + y
  BY <1>1, <1>2, <1>3
<1> QED BY <1>1, <1>2, <1>4, <1>5

LEMMA Prefixes ==
  ASSUME NEW r \in Text, NEW s \in Text, NEW t \in Text
  PROVE  /\ Prefix(s, s) /\ Prefix(<<>>, s)
         /\ Prefix(r, s) /\ Prefix(s, t) => Prefix(r, t)
         /\ Prefix(s, t) /\ Prefix(t, s) => s = t
<1>1. Len(r) \in Nat /\ Len(s) \in Nat /\ Len(t) \in Nat
      /\ \A x \in 1..Len(t) : t[x] \in 1..MaxChunks
  BY LenProperties, ElementOfSeq DEF Text
<1>2. Prefix(s, t) /\ Prefix(t, s) => s = t
  BY <1>1, SeqEqual DEF Prefix, Text
<1>3. Prefix(s, s) /\ Prefix(<<>>, s) /\ (Prefix(r, s) /\ Prefix(s, t) => Prefix(r, t))
  BY <1>1 DEF Prefix
<1> QED BY <1>2, <1>3

-----------------------------------------------------------------------------
(* Types, and what a step of publishing does.                              *)

States == {"none", "new", "sleep", "lock", "publishing", "cancelled"}
HandlersTypeOK ==
  /\ pc \in [Inputs -> {"idle", "running", "answering", "rotating", "done"}]
  /\ target \in [Inputs -> Messages \cup {None}] /\ shellLock \in Messages \cup {None}
  /\ ended \in [Messages -> {"no", "result", "interrupted", "failed", "closed"}]
  /\ interactive \in BOOLEAN
BufferTypeOK ==
  /\ printed \in [Messages -> 0..MaxChunks] /\ buffer \in [Messages -> Text]
  /\ due \in [Messages -> BOOLEAN]
WorkTypeOK ==
  /\ lastPages \in [Messages -> Seq(Text)] /\ delayed \in [Messages -> Timers \cup {None}]
  /\ work \in [Messages -> [Workers -> States]] /\ sending \in [Messages -> Sending \cup {None}]
ChatTypeOK ==
  /\ post \in [Messages -> [1..MaxPages -> [msg : Nat, text : Text]]]
  /\ chat \in Seq([of : Messages, text : Text]) /\ failures \in Nat

LEMMA TypeParts == TypeOK <=> HandlersTypeOK /\ BufferTypeOK /\ WorkTypeOK /\ ChatTypeOK
BY DEF TypeOK, HandlersTypeOK, BufferTypeOK, WorkTypeOK, ChatTypeOK, States

LEMMA Sorts ==
  /\ Out \in Workers /\ Flush \in Workers /\ Timers \subseteq Workers /\ Out # Flush
  /\ Out \notin Timers /\ Flush \notin Timers /\ None \notin Messages /\ None \notin Workers
  /\ None \notin Timers /\ Messages \subseteq Inputs
BY SetsAssumption DEF Workers, Inputs

(* Nothing but records are being sent.                                     *)
LEMMA SendingIs ==
  ASSUME WorkTypeOK, NEW m \in Messages, sending[m] # None
  PROVE  /\ sending[m] \in Sending /\ sending[m].by \in Workers /\ sending[m].pages \in Seq(Text)
         /\ sending[m].at \in Nat \ {0} /\ sending[m].call \in {"send", "edit", "again"}
BY DEF WorkTypeOK, Sending

LEMMA TimerCancelledIs ==
  ASSUME WorkTypeOK, NEW m \in Messages
  PROVE  /\ TimerCancelled(m) \in [Workers -> States]
         /\ TimerCancelled(m)[Out] = work[m][Out] /\ TimerCancelled(m)[Flush] = work[m][Flush]
         /\ \A w \in Workers : TimerCancelled(m)[w] = "publishing" => work[m][w] = "publishing"
BY Sorts DEF TimerCancelled, WorkTypeOK, States

(* The worker is done; a flush lets the handler go on.                     *)
Finishes(m, w, states) ==
  /\ sending'[m] = None /\ work'[m] = [states EXCEPT ![w] = "none"]
  /\ w # Flush => pc' = pc /\ shellLock' = shellLock
  /\ w = Flush => \/ pc' = [pc EXCEPT ![m] = "answering"] /\ shellLock' = shellLock
                  \/ pc' = [pc EXCEPT ![m] = "done"] /\ shellLock' = None

Begins(m, w, pages, from, states) ==
  /\ \E at \in Unsent(m, pages, from) :
       /\ \A k \in Unsent(m, pages, from) : at <= k
       /\ sending'[m] = [by |-> w, pages |-> pages, at |-> at,
                         call |-> IF post[m][at].msg = 0 THEN "send" ELSE "edit"]
  /\ work'[m] = [states EXCEPT ![w] = "publishing"]
  /\ UNCHANGED <<lastPages, pc, shellLock>>

Published(m, w, b, from, states) ==
  /\ \A x \in Messages \ {m} : /\ sending'[x] = sending[x] /\ work'[x] = work[x]
                               /\ lastPages'[x] = lastPages[x]
  /\ \/ Begins(m, w, Pages(b), from, states)
     \/ /\ Unsent(m, Pages(b), from) = {} /\ lastPages'[m] = Pages(b)
        /\ Finishes(m, w, states)
     \/ b = <<>> /\ lastPages' = lastPages /\ Finishes(m, w, states)

HandlerGoesOn == /\ pc' \in [Inputs -> {"idle", "running", "answering", "rotating", "done"}]
                 /\ shellLock' \in Messages \cup {None}

LEMMA ReleaseIs ==
  ASSUME HandlersTypeOK, WorkTypeOK, NEW m \in Messages, NEW w \in Workers,
         NEW states \in [Workers -> States], NEW ref \in Timers \cup {None},
         Release(m, w, states, ref)
  PROVE  /\ work' \in [Messages -> [Workers -> States]] /\ delayed' \in [Messages -> Timers \cup {None}]
         /\ sending' \in [Messages -> Sending \cup {None}]
         /\ HandlerGoesOn /\ Finishes(m, w, states)
         /\ \A x \in Messages \ {m} : sending'[x] = sending[x] /\ work'[x] = work[x]
<1>1. /\ work' \in [Messages -> [Workers -> States]] /\ delayed' \in [Messages -> Timers \cup {None}]
      /\ sending' \in [Messages -> Sending \cup {None}]
  BY DEF Release, ClearsTimer, WorkTypeOK, States
<1>2. sending'[m] = None /\ work'[m] = [states EXCEPT ![w] = "none"]
      /\ \A x \in Messages \ {m} : sending'[x] = sending[x] /\ work'[x] = work[x]
  BY DEF Release, WorkTypeOK
<1>3. HandlerGoesOn
  BY Sorts DEF Release, HandlersTypeOK, HandlerGoesOn
<1>4. /\ w # Flush => pc' = pc /\ shellLock' = shellLock
      /\ w = Flush => \/ pc' = [pc EXCEPT ![m] = "answering"] /\ shellLock' = shellLock
                      \/ pc' = [pc EXCEPT ![m] = "done"] /\ shellLock' = None
  BY DEF Release
<1> QED BY <1>1, <1>2, <1>3, <1>4 DEF Finishes

LEMMA SendFromIs ==
  ASSUME HandlersTypeOK, WorkTypeOK, NEW m \in Messages, NEW w \in Workers,
         NEW states \in [Workers -> States], NEW ref \in Timers \cup {None},
         NEW b \in Text, NEW from \in Nat \ {0}, SendFrom(m, w, Pages(b), from, states, ref)
  PROVE  WorkTypeOK' /\ HandlerGoesOn /\ Published(m, w, b, from, states)
<1> DEFINE pages == Pages(b)
<1>1. pages \in Seq(Text) /\ Len(pages) \in Nat
  BY PageTypes
<1> HIDE DEF pages
<1>2. CASE Unsent(m, pages, from) = {}
  <2>1. lastPages' = [lastPages EXCEPT ![m] = pages] /\ Release(m, w, states, ref)
    BY <1>2 DEF SendFrom, pages
  <2>2. lastPages' \in [Messages -> Seq(Text)] /\ lastPages'[m] = pages
        /\ \A x \in Messages \ {m} : lastPages'[x] = lastPages[x]
    BY <1>1, <2>1 DEF WorkTypeOK
  <2> QED BY <1>2, <2>1, <2>2, ReleaseIs DEF WorkTypeOK, Published, pages
<1>3. CASE Unsent(m, pages, from) # {}
  <2>1. Unsent(m, pages, from) \subseteq Nat /\ \A k \in Unsent(m, pages, from) : k \in Nat \ {0}
    BY <1>1 DEF Unsent
  <2>2. PICK least \in Unsent(m, pages, from) : \A k \in Unsent(m, pages, from) : least <= k
    BY <1>3, <2>1, SmallestOfNat
  <2> DEFINE at == CHOOSE j \in Unsent(m, pages, from) : \A k \in Unsent(m, pages, from) : j <= k
  <2>3. at \in Unsent(m, pages, from) /\ \A k \in Unsent(m, pages, from) : at <= k
    BY <2>2
  <2>4. /\ sending' = [sending EXCEPT ![m] =
              [by |-> w, pages |-> pages, at |-> at,
               call |-> IF post[m][at].msg = 0 THEN "send" ELSE "edit"]]
        /\ work' = [work EXCEPT ![m] = [states EXCEPT ![w] = "publishing"]]
        /\ delayed' = [delayed EXCEPT ![m] = ref]
        /\ UNCHANGED <<lastPages, pc, shellLock>>
    BY <1>3 DEF SendFrom, pages
  <2> HIDE DEF at
  <2>5. [by |-> w, pages |-> pages, at |-> at,
         call |-> IF post[m][at].msg = 0 THEN "send" ELSE "edit"] \in Sending
    BY <1>1, <2>1, <2>3 DEF Sending
  <2>6. WorkTypeOK' /\ HandlerGoesOn
    BY <2>4, <2>5 DEF WorkTypeOK, HandlersTypeOK, HandlerGoesOn, States
  <2>7. Begins(m, w, pages, from, states)
    BY <2>3, <2>4 DEF Begins, WorkTypeOK
  <2> QED BY <2>4, <2>6, <2>7 DEF Published, WorkTypeOK, pages
<1> QED BY <1>2, <1>3

LEMMA PublishIs ==
  ASSUME HandlersTypeOK, WorkTypeOK, NEW m \in Messages, NEW w \in Workers,
         NEW states \in [Workers -> States], NEW ref \in Timers \cup {None},
         NEW b \in Text, due \in [Messages -> BOOLEAN], Publish(m, w, b, states, ref)
  PROVE  /\ WorkTypeOK' /\ HandlerGoesOn /\ Published(m, w, b, 1, states)
         /\ due' \in [Messages -> BOOLEAN]
<1>1. CASE b = <<>>
  <2>1. Release(m, w, states, ref) /\ UNCHANGED <<lastPages, due>>
    BY <1>1 DEF Publish
  <2> QED BY <1>1, <2>1, ReleaseIs DEF WorkTypeOK, Published
<1>2. CASE b # <<>>
  <2>1. SendFrom(m, w, Pages(b), 1, states, ref) /\ due' = [due EXCEPT ![m] = FALSE]
    BY <1>2 DEF Publish
  <2> QED BY <2>1, SendFromIs
<1> QED BY <1>1, <1>2

-----------------------------------------------------------------------------
(* What a delivered request does to the chat.                              *)

ChatMessage == [of : Messages, text : Text]
DeliveredAt(m) == IF sending[m].call = "edit" THEN post[m][sending[m].at].msg ELSE Len(chat) + 1

LEMMA RequestIs ==
  ASSUME TypeOK, SendsTheBuffer, NEW m \in Messages, sending[m] # None
  PROVE  /\ sending[m].at \in 1..Len(Pages(buffer[m])) /\ sending[m].at \in 1..MaxPages
         /\ Request(m) = Pages(buffer[m])[sending[m].at] /\ Request(m) \in Text
         /\ Request(m) # <<>>
<1>1. buffer[m] \in Text /\ Len(buffer[m]) \in Nat /\ printed[m] \in 0..MaxChunks
  BY LenProperties DEF TypeOK, Text
<1>2. Len(buffer[m]) <= MaxChunks
  BY <1>1, BoundsAssumption DEF SendsTheBuffer
<1>3. Len(Pages(buffer[m])) \in Nat /\ Len(Pages(buffer[m])) <= MaxPages /\ MaxPages \in Nat
  BY <1>1, <1>2, PagesFit, PageTypes, MaxPagesType
<1>4. sending[m].at \in 1..Len(Pages(buffer[m])) /\ sending[m].pages = Pages(buffer[m])
  BY DEF SendsTheBuffer
<1> QED BY <1>1, <1>3, <1>4, PageTypes DEF Request

LEMMA DeliveredIs ==
  ASSUME TypeOK, SendsTheBuffer, PostedIsShown, NEW m \in Messages, sending[m] # None
  PROVE  /\ Delivered(m) \in Seq(ChatMessage) /\ Len(chat) \in Nat
         /\ Len(Delivered(m)) = IF sending[m].call = "edit" THEN Len(chat) ELSE Len(chat) + 1
         /\ DeliveredAt(m) \in 1..Len(Delivered(m))
         /\ Delivered(m)[DeliveredAt(m)] = [of |-> m, text |-> Request(m)]
         /\ \A i \in 1..Len(chat) : i # DeliveredAt(m) => Delivered(m)[i] = chat[i]
         /\ sending[m].call = "edit" =>
              /\ DeliveredAt(m) \in 1..Len(chat) /\ chat[DeliveredAt(m)].of = m
              /\ Prefix(chat[DeliveredAt(m)].text, Request(m))
<1> DEFINE at == sending[m].at
           e == post[m][at].msg
<1>1. at \in 1..MaxPages /\ Request(m) = Pages(buffer[m])[at] /\ Request(m) \in Text
  BY RequestIs
<1>2. chat \in Seq(ChatMessage) /\ Len(chat) \in Nat
  BY LenProperties DEF TypeOK, ChatMessage
<1>3. CASE sending[m].call = "edit"
  <2>1. e \in 1..Len(chat) /\ chat[e].of = m /\ Prefix(chat[e].text, Request(m))
    BY <1>1, <1>3 DEF SendsTheBuffer, PostedIsShown
  <2>2. chat[e] \in ChatMessage
    BY <1>2, <2>1, ElementOfSeq
  <2>3. chat[e] = [of |-> m, text |-> chat[e].text]
    BY <2>1, <2>2 DEF ChatMessage
  <2>4. Delivered(m) = [chat EXCEPT ![e] = [@ EXCEPT !.text = Request(m)]]
    BY <1>3 DEF Delivered
  <2>5. [chat[e] EXCEPT !.text = Request(m)] = [of |-> m, text |-> Request(m)]
    BY <2>3
  <2>6. [of |-> m, text |-> Request(m)] \in ChatMessage
    BY <1>1 DEF ChatMessage
  <2>7. Delivered(m) = [chat EXCEPT ![e] = [of |-> m, text |-> Request(m)]]
    BY <2>4, <2>5
  <2> HIDE DEF e
  <2>8. /\ Delivered(m) \in Seq(ChatMessage) /\ Len(Delivered(m)) = Len(chat)
        /\ \A j \in 1..Len(chat) :
             Delivered(m)[j] = IF j = e THEN [of |-> m, text |-> Request(m)] ELSE chat[j]
    BY <1>2, <2>1, <2>6, <2>7, ExceptSeq
  <2>9. DeliveredAt(m) = e
    BY <1>3 DEF DeliveredAt, e
  <2> QED BY <1>2, <1>3, <2>1, <2>8, <2>9
<1>4. CASE sending[m].call # "edit"
  <2>1. Delivered(m) = Append(chat, [of |-> m, text |-> Request(m)]) /\ DeliveredAt(m) = Len(chat) + 1
    BY <1>4 DEF Delivered, DeliveredAt
  <2>2. [of |-> m, text |-> Request(m)] \in ChatMessage
    BY <1>1 DEF ChatMessage
  <2> QED BY <1>2, <1>4, <2>1, <2>2
<1> QED BY <1>3, <1>4

(* What is delivered extends what a message of the stream shows.           *)
LEMMA DeliveredGrows ==
  ASSUME TypeOK, SendsTheBuffer, PostedIsShown, NEW m \in Messages, sending[m] # None,
         NEW i \in 1..Len(chat)
  PROVE  /\ i \in 1..Len(Delivered(m)) /\ Delivered(m)[i].of = chat[i].of
         /\ Delivered(m)[i].text \in Text /\ chat[i].text \in Text
         /\ Prefix(chat[i].text, Delivered(m)[i].text)
<1>1. chat[i] \in ChatMessage /\ i \in 1..Len(Delivered(m)) /\ Delivered(m)[i] \in ChatMessage
  <2>1. Delivered(m) \in Seq(ChatMessage) /\ Len(chat) \in Nat
        /\ Len(Delivered(m)) \in {Len(chat), Len(chat) + 1}
    BY DeliveredIs
  <2>2. i \in 1..Len(Delivered(m))
    BY <2>1
  <2>3. chat \in Seq(ChatMessage)
    BY DEF TypeOK, ChatMessage
  <2> QED BY <2>1, <2>2, <2>3, ElementOfSeq
<1>2. chat[i].text \in Text /\ Delivered(m)[i].text \in Text
  BY <1>1 DEF ChatMessage
<1>3. Prefix(chat[i].text, chat[i].text)
  BY <1>2, Prefixes
<1>4. CASE i # DeliveredAt(m)
  BY <1>1, <1>2, <1>3, <1>4, DeliveredIs
<1>5. CASE i = DeliveredAt(m)
  <2>1. sending[m].call = "edit"
    BY <1>5, DeliveredIs DEF DeliveredAt
  <2>2. Delivered(m)[i] = [of |-> m, text |-> Request(m)]
        /\ chat[i].of = m /\ Prefix(chat[i].text, Request(m))
    BY <1>5, <2>1, DeliveredIs
  <2> QED BY <1>1, <1>2, <2>2
<1> QED BY <1>4, <1>5

-----------------------------------------------------------------------------
(* The steps that publish, and the types.                                  *)

Base == TypeOK /\ Holders /\ LockIsPublish /\ SendsTheBuffer /\ PostedIsShown

Publishing(m, w, from, states) ==
  /\ Published(m, w, buffer'[m], from, states)
  /\ states \in [Workers -> States]
  /\ states[Out] = work[m][Out] /\ states[Flush] = work[m][Flush]
  /\ \A x \in Workers : states[x] = "publishing" => x = w

(* A chunk goes into the buffer.                                           *)
Grows(m, k) ==
  /\ buffer' = [buffer EXCEPT ![m] = Append(buffer[m], k)] /\ k \in 1..MaxChunks
  /\ printed' = [printed EXCEPT ![m] = k]
  /\ \/ Prints(m) /\ k = printed[m] + 1
     \/ work[m][Out] = "lock" /\ interactive /\ k = printed[m]

LEMMA NobodyPublishes ==
  ASSUME Base, NEW m \in Messages, sending[m] = None
  PROVE  /\ \A w \in Workers : work[m][w] # "publishing"
         /\ \A w \in Workers : TimerCancelled(m)[w] # "publishing"
         /\ TimerCancelled(m) \in [Workers -> States]
         /\ TimerCancelled(m)[Out] = work[m][Out] /\ TimerCancelled(m)[Flush] = work[m][Flush]
BY TypeParts, TimerCancelledIs DEF Base, LockIsPublish

LEMMA ChunkTypes ==
  ASSUME Base, NEW m \in Messages, NEW k \in 1..MaxChunks, StreamChunk(m, k)
  PROVE  /\ Grows(m, k) /\ sending[m] = None
         /\ buffer' \in [Messages -> Text] /\ printed' \in [Messages -> 0..MaxChunks]
         /\ Append(buffer[m], k) \in Text /\ buffer'[m] = Append(buffer[m], k)
<1>1. buffer \in [Messages -> Text] /\ printed \in [Messages -> 0..MaxChunks] /\ MaxChunks \in Nat
  BY BoundsAssumption DEF Base, TypeOK
<1>2. Append(buffer[m], k) \in Text
  BY <1>1, PagesGrow
<1>3. Grows(m, k) /\ sending[m] = None
  BY DEF StreamChunk, Grows, Unlocked
<1> QED BY <1>1, <1>2, <1>3 DEF Grows

LEMMA StreamPublishesIs ==
  ASSUME Base, NEW m \in Messages, NEW k \in 1..MaxChunks, StreamPublishes(m, k)
  PROVE  /\ TypeOK' /\ Publishing(m, Out, 1, TimerCancelled(m))
         /\ Grows(m, k) /\ sending[m] = None
         /\ UNCHANGED <<target, ended, interactive, post, chat, failures>>
<1>1. HandlersTypeOK /\ WorkTypeOK /\ BufferTypeOK /\ ChatTypeOK
  BY TypeParts DEF Base
<1>2. /\ Grows(m, k) /\ sending[m] = None
      /\ buffer' \in [Messages -> Text] /\ printed' \in [Messages -> 0..MaxChunks]
      /\ Append(buffer[m], k) \in Text /\ buffer'[m] = Append(buffer[m], k)
  BY ChunkTypes DEF StreamPublishes
<1>3. UNCHANGED <<target, ended, interactive, post, chat, failures>>
  BY DEF StreamPublishes, StreamChunk, outcome, telegram
<1>4. Publish(m, Out, Append(buffer[m], k), TimerCancelled(m), None)
  BY DEF StreamPublishes
<1>5. WorkTypeOK' /\ HandlerGoesOn /\ Published(m, Out, Append(buffer[m], k), 1, TimerCancelled(m))
      /\ due' \in [Messages -> BOOLEAN]
  BY <1>1, <1>2, <1>4, Sorts, NobodyPublishes, PublishIs DEF BufferTypeOK
<1>6. TypeOK'
  BY <1>1, <1>2, <1>3, <1>5 DEF HandlersTypeOK, WorkTypeOK, BufferTypeOK, ChatTypeOK, HandlerGoesOn,
     TypeOK, States
<1> QED BY <1>2, <1>3, <1>5, <1>6, NobodyPublishes DEF Publishing

LEMMA TimerPublishesIs ==
  ASSUME Base, NEW m \in Messages, NEW t \in Timers, TimerPublishes(m, t)
  PROVE  /\ TypeOK' /\ Publishing(m, t, 1, work[m])
         /\ sending[m] = None
         /\ UNCHANGED <<target, ended, interactive, printed, buffer, post, chat, failures>>
<1>1. HandlersTypeOK /\ WorkTypeOK /\ BufferTypeOK /\ ChatTypeOK
  BY TypeParts DEF Base
<1>2. /\ Publish(m, t, buffer[m], work[m], delayed[m]) /\ sending[m] = None
      /\ UNCHANGED <<target, ended, interactive, printed, buffer, post, chat, failures>>
  BY DEF TimerPublishes, Unlocked, outcome, telegram
<1>3. WorkTypeOK' /\ HandlerGoesOn /\ Published(m, t, buffer[m], 1, work[m])
      /\ due' \in [Messages -> BOOLEAN]
  <2>1. work[m] \in [Workers -> States] /\ delayed[m] \in Timers \cup {None} /\ buffer[m] \in Text
        /\ due \in [Messages -> BOOLEAN] /\ t \in Workers
    BY <1>1, Sorts DEF WorkTypeOK, BufferTypeOK
  <2> QED BY <1>1, <1>2, <2>1, PublishIs
<1>4. TypeOK'
  BY <1>1, <1>2, <1>3 DEF HandlersTypeOK, WorkTypeOK, BufferTypeOK, ChatTypeOK, HandlerGoesOn,
     TypeOK, States
<1> QED BY <1>1, <1>2, <1>3, <1>4, NobodyPublishes DEF Publishing, WorkTypeOK

LEMMA FlushStartsIs ==
  ASSUME Base, NEW m \in Messages, FlushStarts(m)
  PROVE  /\ TypeOK' /\ Publishing(m, Flush, 1, TimerCancelled(m))
         /\ sending[m] = None
         /\ HasResult(m) \/ work[m][Flush] = "lock"
         /\ ended' = [ended EXCEPT ![m] = "result"]
         /\ UNCHANGED <<target, interactive, printed, buffer, post, chat, failures>>
<1>1. HandlersTypeOK /\ WorkTypeOK /\ BufferTypeOK /\ ChatTypeOK
  BY TypeParts DEF Base
<1>2. /\ Publish(m, Flush, buffer[m], TimerCancelled(m), None) /\ sending[m] = None
      /\ HasResult(m) \/ work[m][Flush] = "lock"
      /\ ended' = [ended EXCEPT ![m] = "result"]
      /\ UNCHANGED <<target, interactive, printed, buffer, post, chat, failures>>
  BY DEF FlushStarts, FlushForced, Ends, Unlocked, telegram
<1>3. WorkTypeOK' /\ HandlerGoesOn /\ Published(m, Flush, buffer[m], 1, TimerCancelled(m))
      /\ due' \in [Messages -> BOOLEAN]
  <2>1. buffer[m] \in Text /\ due \in [Messages -> BOOLEAN]
    BY <1>1 DEF BufferTypeOK
  <2> QED BY <1>1, <1>2, <2>1, Sorts, NobodyPublishes, PublishIs
<1>4. TypeOK'
  BY <1>1, <1>2, <1>3 DEF HandlersTypeOK, WorkTypeOK, BufferTypeOK, ChatTypeOK, HandlerGoesOn,
     TypeOK, States
<1> QED BY <1>2, <1>3, <1>4, NobodyPublishes DEF Publishing

(* The request returned or was given up: the next page, or the end.        *)
LEMMA GoesOnIs ==
  ASSUME Base, NEW m \in Messages, sending[m] # None, GoesOn(m)
  PROVE  /\ WorkTypeOK' /\ HandlersTypeOK' /\ BufferTypeOK'
         /\ Publishing(m, sending[m].by, sending[m].at + 1, work[m])
         /\ UNCHANGED <<target, ended, interactive, printed, buffer>>
<1>1. HandlersTypeOK /\ WorkTypeOK /\ BufferTypeOK
  BY TypeParts DEF Base
<1>2. /\ sending[m].by \in Workers /\ sending[m].at + 1 \in Nat \ {0} /\ buffer[m] \in Text
      /\ work[m] \in [Workers -> States] /\ delayed[m] \in Timers \cup {None}
      /\ sending[m].pages = Pages(buffer[m])
  BY <1>1, SendingIs DEF Base, SendsTheBuffer, WorkTypeOK, BufferTypeOK
<1>3. /\ SendFrom(m, sending[m].by, Pages(buffer[m]), sending[m].at + 1, work[m], delayed[m])
      /\ UNCHANGED <<target, ended, interactive, printed, buffer, due>>
  BY <1>2 DEF GoesOn, outcome
<1>4. WorkTypeOK' /\ HandlerGoesOn
      /\ Published(m, sending[m].by, buffer[m], sending[m].at + 1, work[m])
  BY <1>1, <1>2, <1>3, SendFromIs
<1>5. HandlersTypeOK' /\ BufferTypeOK'
  BY <1>1, <1>3, <1>4 DEF HandlersTypeOK, BufferTypeOK, HandlerGoesOn
<1>6. \A x \in Workers : work[m][x] = "publishing" => x = sending[m].by
  BY DEF Base, LockIsPublish
<1> QED BY <1>2, <1>3, <1>4, <1>5, <1>6 DEF Publishing

LEMMA AnsweredIs ==
  ASSUME Base, NEW m \in Messages, Answered(m)
  PROVE  /\ TypeOK' /\ sending[m] # None
         /\ Publishing(m, sending[m].by, sending[m].at + 1, work[m])
         /\ UNCHANGED <<target, ended, interactive, printed, buffer, failures>>
         /\ chat' = Delivered(m)
         /\ post' = [post EXCEPT ![m][sending[m].at] =
                       [msg |-> DeliveredAt(m), text |-> Request(m)]]
         /\ ~Cut(m)
<1>1. TypeOK /\ ChatTypeOK /\ sending[m] # None /\ ~Cut(m) /\ chat' = Delivered(m) /\ failures' = failures
  BY TypeParts DEF Base, Answered, Unlocked
<1>2. GoesOn(m)
  BY DEF Answered
<1>3. sending[m].at \in 1..MaxPages /\ Request(m) \in Text
  BY <1>1, RequestIs DEF Base
<1>4. post' = [post EXCEPT ![m][sending[m].at] = [msg |-> DeliveredAt(m), text |-> Request(m)]]
  BY <1>1, <1>3 DEF Answered, DeliveredAt, ChatTypeOK
<1>5. DeliveredAt(m) \in Nat
  <2>1. Len(Delivered(m)) \in Nat /\ DeliveredAt(m) \in 1..Len(Delivered(m))
    BY <1>1, DeliveredIs, LenProperties DEF Base
  <2> QED BY <2>1
<1>6. post' \in [Messages -> [1..MaxPages -> [msg : Nat, text : Text]]]
  BY <1>1, <1>3, <1>4, <1>5 DEF ChatTypeOK
<1>7. ChatTypeOK'
  BY <1>1, <1>6, DeliveredIs DEF Base, ChatTypeOK, ChatMessage
<1>8. TypeOK'
  BY <1>1, <1>2, <1>7, GoesOnIs DEF TypeOK, HandlersTypeOK, BufferTypeOK, WorkTypeOK, ChatTypeOK, States
<1> QED BY <1>1, <1>2, <1>4, <1>8, GoesOnIs

LEMMA RaisedIs ==
  ASSUME Base, NEW m \in Messages, Raised(m)
  PROVE  /\ sending[m] # None /\ ChatTypeOK' /\ post' = post /\ failures' # 0
         /\ chat' \in {chat, Delivered(m)}
<1>1. sending[m] # None /\ ChatTypeOK /\ TypeOK
  BY TypeParts DEF Base, Raised, Unlocked
<1>2. Delivered(m) \in Seq([of : Messages, text : Text])
  BY <1>1, DeliveredIs DEF Base, ChatMessage
<1> QED BY <1>1, <1>2 DEF Raised, ChatTypeOK

LEMMA GivesUpIs ==
  ASSUME Base, NEW m \in Messages, GivesUp(m)
  PROVE  /\ TypeOK' /\ sending[m] # None
         /\ Publishing(m, sending[m].by, sending[m].at + 1, work[m])
         /\ UNCHANGED <<target, ended, interactive, printed, buffer, post>>
         /\ failures' # 0 /\ chat' \in {chat, Delivered(m)}
<1>1. Raised(m) /\ GoesOn(m)
  BY DEF GivesUp
<1>2. sending[m] # None /\ ChatTypeOK' /\ post' = post /\ failures' # 0
      /\ chat' \in {chat, Delivered(m)}
  BY <1>1, RaisedIs
<1>3. TypeOK'
  BY <1>1, <1>2, GoesOnIs DEF TypeOK, HandlersTypeOK, BufferTypeOK, WorkTypeOK, ChatTypeOK, States
<1> QED BY <1>1, <1>2, <1>3, GoesOnIs

LEMMA RotateIs ==
  ASSUME Base, NEW t \in Inputs, NEW m \in Messages, Rotate(t, m)
  PROVE  /\ TypeOK' /\ sending[m] = None
         /\ work' = [work EXCEPT ![m] = TimerCancelled(m)]
         /\ buffer' = [buffer EXCEPT ![m] = <<>>] /\ post' = [post EXCEPT ![m] = Unposted]
         /\ lastPages' = [lastPages EXCEPT ![m] = <<>>]
         /\ pc' = [pc EXCEPT ![t] = "done"] /\ pc[t] \in {"idle", "rotating"}
         /\ UNCHANGED <<shellLock, ended, interactive, printed, sending, chat, failures>>
<1>1. /\ sending[m] = None
      /\ work' = [work EXCEPT ![m] = TimerCancelled(m)] /\ delayed' = [delayed EXCEPT ![m] = None]
      /\ buffer' = [buffer EXCEPT ![m] = <<>>] /\ post' = [post EXCEPT ![m] = Unposted]
      /\ lastPages' = [lastPages EXCEPT ![m] = <<>>] /\ due' = [due EXCEPT ![m] = TRUE]
      /\ pc' = [pc EXCEPT ![t] = "done"] /\ pc[t] \in {"idle", "rotating"}
      /\ UNCHANGED <<target, shellLock, ended, interactive, printed, sending, chat, failures>>
  BY DEF Rotate, Unlocked, NewText, NewIds, outcome, IsInput
<1>2. Unposted \in [1..MaxPages -> [msg : Nat, text : Text]] /\ <<>> \in Text /\ <<>> \in Seq(Text)
  BY EmptySeq DEF Unposted, Text
<1>3. TypeOK'
  BY <1>1, <1>2, NobodyPublishes DEF Base, TypeOK, States
<1> QED BY <1>1, <1>3

LEMMA StreamCutIs ==
  ASSUME Base, NEW m \in Messages, StreamCut(m)
  PROVE  /\ TypeOK' /\ ~interactive /\ work[m][Out] # "none"
         /\ work' = [work EXCEPT ![m][Out] = "none"]
         /\ \/ UNCHANGED <<sending, chat>> /\ work[m][Out] = "lock"
            \/ /\ sending[m] # None /\ sending[m].by = Out
               /\ sending' = [sending EXCEPT ![m] = None] /\ chat' \in {chat, Delivered(m)}
         /\ UNCHANGED <<handlers, printed, context, post, failures>>
<1>0. TypeOK /\ Out \in Workers
  BY Sorts DEF Base
<1>1. CASE work[m][Out] = "lock"
  BY <1>0, <1>1 DEF StreamCut, TypeOK, handlers, context, outcome
<1>2. CASE work[m][Out] = "publishing"
  <2>1. sending[m] # None /\ sending[m].by = Out
    BY <1>0, <1>2 DEF Base, LockIsPublish
  <2>2. Delivered(m) \in Seq([of : Messages, text : Text])
    BY <2>1, DeliveredIs DEF Base, ChatMessage
  <2>3. /\ sending' = [sending EXCEPT ![m] = None] /\ chat' \in {chat, Delivered(m)}
        /\ work' = [work EXCEPT ![m][Out] = "none"] /\ ~interactive
        /\ UNCHANGED <<handlers, printed, context, post, failures>>
    BY <1>2 DEF StreamCut
  <2>4. TypeOK'
    BY <1>0, <2>2, <2>3 DEF TypeOK, handlers, context, outcome
  <2> QED BY <1>2, <2>1, <2>3, <2>4
<1> QED BY <1>1, <1>2 DEF StreamCut

LEMMA StreamDelaysIs ==
  ASSUME Base, NEW m \in Messages, NEW k \in 1..MaxChunks, StreamDelays(m, k)
  PROVE  /\ TypeOK' /\ Grows(m, k) /\ sending[m] = None
         /\ \E states \in [Workers -> States] :
              /\ work' = [work EXCEPT ![m] = states]
              /\ states[Out] = "none" /\ states[Flush] = work[m][Flush]
              /\ \A w \in Workers : states[w] # "publishing"
         /\ UNCHANGED <<handlers, lastPages, sending, telegram>>
<1>0. TypeOK
  BY DEF Base
<1>1. /\ Grows(m, k) /\ sending[m] = None
      /\ buffer' \in [Messages -> Text] /\ printed' \in [Messages -> 0..MaxChunks]
  BY ChunkTypes DEF StreamDelays
<1>2. UNCHANGED <<handlers, lastPages, due, sending, telegram>>
  BY DEF StreamDelays, StreamChunk, handlers, outcome
<1>3. /\ delayed' \in [Messages -> Timers \cup {None}]
      /\ \E states \in [Workers -> States] :
              /\ work' = [work EXCEPT ![m] = states]
              /\ states[Out] = "none" /\ states[Flush] = work[m][Flush]
              /\ \A w \in Workers : states[w] # "publishing"
  <2>0. work[m] \in [Workers -> States] /\ \A w \in Workers : work[m][w] # "publishing"
    BY <1>0, <1>1, NobodyPublishes DEF TypeOK, States
  <2>1. CASE delayed[m] # None
    <3>1. work' = [work EXCEPT ![m] = [work[m] EXCEPT ![Out] = "none"]] /\ delayed' = delayed
      BY <1>0, <2>1 DEF StreamDelays, TypeOK
    <3> DEFINE states == [work[m] EXCEPT ![Out] = "none"]
    <3>2. /\ states \in [Workers -> States]
          /\ states[Out] = "none" /\ states[Flush] = work[m][Flush]
          /\ \A w \in Workers : states[w] # "publishing"
      BY <2>0, Sorts DEF States
    <3>3. delayed' \in [Messages -> Timers \cup {None}]
      BY <1>0, <3>1 DEF TypeOK
    <3> QED BY <3>1, <3>2, <3>3
  <2>2. CASE delayed[m] = None
    <3>1. PICK t \in Timers :
            /\ delayed' = [delayed EXCEPT ![m] = t]
            /\ work' = [work EXCEPT ![m][Out] = "none", ![m][t] = "new"]
      BY <2>2 DEF StreamDelays
    <3> DEFINE states == [work[m] EXCEPT ![Out] = "none", ![t] = "new"]
    <3>2. work' = [work EXCEPT ![m] = states]
      BY <1>0, <2>0, <3>1, Sorts DEF TypeOK
    <3>3. /\ states \in [Workers -> States]
          /\ states[Out] = "none" /\ states[Flush] = work[m][Flush]
          /\ \A w \in Workers : states[w] # "publishing"
      BY <2>0, Sorts DEF States
    <3>4. delayed' \in [Messages -> Timers \cup {None}]
      BY <1>0, <3>1 DEF TypeOK
    <3> QED BY <3>2, <3>3, <3>4
  <2> QED BY <2>1, <2>2
<1>4. TypeOK'
  <2>1. work' \in [Messages -> [Workers -> States]]
    BY <1>0, <1>3 DEF TypeOK, States
  <2> QED BY <1>0, <1>1, <1>2, <1>3, <2>1 DEF TypeOK, handlers, outcome, telegram, States
<1> QED BY <1>1, <1>2, <1>3, <1>4

LEMMA SendsAgainIs ==
  ASSUME Base, NEW m \in Messages, SendsAgain(m)
  PROVE  /\ TypeOK' /\ sending[m] # None /\ failures' # 0
         /\ sending' = [sending EXCEPT ![m].call = "again"]
         /\ chat' \in {chat, Delivered(m)}
         /\ UNCHANGED <<handlers, printed, context, work, post>>
<1>1. /\ sending[m] # None /\ failures' # 0 /\ post' = post /\ ChatTypeOK'
      /\ chat' \in {chat, Delivered(m)}
      /\ sending' = [sending EXCEPT ![m].call = "again"]
      /\ UNCHANGED <<handlers, printed, context, work>>
  BY RaisedIs DEF SendsAgain
<1>2. sending' \in [Messages -> Sending \cup {None}]
  <2>1. sending[m] \in Sending /\ sending \in [Messages -> Sending \cup {None}]
    BY <1>1, TypeParts, SendingIs DEF Base, TypeOK
  <2>2. [sending[m] EXCEPT !.call = "again"] \in Sending
    BY <2>1 DEF Sending
  <2> QED BY <1>1, <2>1, <2>2
<1> QED BY <1>1, <1>2 DEF Base, TypeOK, ChatTypeOK, handlers, outcome, context

(* The steps that neither publish nor touch a text.                        *)
TimerMoves(m, u) == TimerStarts(m, u) \/ TimerWaits(m, u) \/ TimerEnds(m, u)
Simple(m, t) ==
  \/ StreamWaits(m) \/ RunCommand(m) \/ RefuseApp(m) \/ FlushWaits(m) \/ Interrupted(m)
  \/ RunFails(m) \/ AnswerReturns(m) \/ IntervalPasses(m) \/ Exit \/ InputOnly(t) \/ RotateWaits(t)
  \/ \E u \in Timers : TimerMoves(m, u)
  \/ UNCHANGED vars

LEMMA TimerMovesIs ==
  ASSUME Base, NEW m \in Messages, NEW u \in Timers, TimerMoves(m, u)
  PROVE  /\ TypeOK'
         /\ \E to \in States \ {"publishing"} :
              work[m][u] # "publishing" /\ work' = [work EXCEPT ![m] = [work[m] EXCEPT ![u] = to]]
         /\ UNCHANGED <<handlers, printed, buffer, lastPages, due, sending, telegram>>
<1>0. TypeOK /\ work[m] \in [Workers -> States] /\ u \in Workers
  BY Sorts DEF Base, TypeOK, States
<1>1. ASSUME NEW from, NEW to \in States \ {"publishing"}, from # "publishing", TimerGoes(m, u, from, to)
      PROVE  /\ work[m][u] # "publishing" /\ work' = [work EXCEPT ![m] = [work[m] EXCEPT ![u] = to]]
             /\ UNCHANGED <<handlers, printed, buffer, lastPages, due, sending, telegram>>
             /\ work' \in [Messages -> [Workers -> States]]
  <2>1. work' = [work EXCEPT ![m] = [work[m] EXCEPT ![u] = to]]
    BY <1>0, <1>1 DEF TimerGoes, TypeOK
  <2>2. [work[m] EXCEPT ![u] = to] \in [Workers -> States]
    BY <1>0
  <2>3. work' \in [Messages -> [Workers -> States]]
    BY <1>0, <2>1, <2>2 DEF TypeOK, States
  <2> QED BY <1>1, <2>1, <2>3 DEF TimerGoes
<1>2. delayed' \in [Messages -> Timers \cup {None}]
  BY <1>0 DEF TimerMoves, TimerStarts, TimerWaits, TimerEnds, ClearsTimer, TypeOK
<1>3. \E from, to : /\ TimerGoes(m, u, from, to) /\ from # "publishing"
                    /\ to \in States \ {"publishing"}
  BY DEF TimerMoves, TimerStarts, TimerWaits, TimerEnds, States
<1>4. PICK from, to : /\ TimerGoes(m, u, from, to) /\ from # "publishing"
                      /\ to \in States \ {"publishing"}
  BY <1>3
<1>5. /\ work[m][u] # "publishing" /\ work' = [work EXCEPT ![m] = [work[m] EXCEPT ![u] = to]]
      /\ UNCHANGED <<handlers, printed, buffer, lastPages, due, sending, telegram>>
      /\ work' \in [Messages -> [Workers -> States]]
  BY <1>1, <1>4
<1>6. TypeOK'
  BY <1>0, <1>2, <1>5 DEF TypeOK, handlers, outcome, telegram, States
<1> QED BY <1>4, <1>5, <1>6

LEMMA SimpleTypes ==
  ASSUME Base, NEW m \in Messages, NEW t \in Inputs, Simple(m, t)
  PROVE  TypeOK' /\ UNCHANGED <<buffer, lastPages, sending, post, chat, failures>>
<1>0. TypeOK /\ m \in Inputs
  BY Sorts DEF Base
<1>1. CASE StreamWaits(m)
  <2>1. printed' \in [Messages -> 0..MaxChunks]
    BY <1>0, <1>1, BoundsAssumption DEF StreamWaits, Prints, TypeOK
  <2> QED BY <1>0, <1>1, <2>1 DEF StreamWaits, TypeOK, handlers, outcome, context, telegram
<1>2. CASE RunCommand(m) \/ RefuseApp(m) \/ Interrupted(m) \/ RunFails(m) \/ AnswerReturns(m)
  BY <1>0, <1>2 DEF RunCommand, RefuseApp, Interrupted, RunFails, AnswerReturns, Ends, TypeOK,
     outcome, context, telegram
<1>3. CASE FlushWaits(m)
  BY <1>0, <1>3, Sorts DEF FlushWaits, Ends, TypeOK, context, telegram
<1>4. CASE IntervalPasses(m)
  BY <1>0, <1>4 DEF IntervalPasses, TypeOK, handlers, outcome, telegram
<1>5. CASE Exit
  BY <1>0, <1>5, Sorts DEF Exit, TypeOK, context, telegram
<1>6. CASE InputOnly(t)
  BY <1>0, <1>6 DEF InputOnly, TypeOK, outcome, context, telegram
<1>7. CASE RotateWaits(t)
  BY <1>0, <1>7 DEF RotateWaits, TypeOK, outcome, context, telegram
<1>8. CASE \E u \in Timers : TimerMoves(m, u)
  BY <1>8, TimerMovesIs DEF telegram
<1>9. CASE UNCHANGED vars
  BY <1>0, <1>9 DEF vars, handlers, outcome, context, telegram, TypeOK
<1> QED BY <1>1, <1>2, <1>3, <1>4, <1>5, <1>6, <1>7, <1>8, <1>9, Zenon DEF Simple

(* What such a step does to the workers of a stream and to its handler.    *)
Calm(x) ==
  /\ \A w \in Workers : work'[x][w] = "publishing" <=> work[x][w] = "publishing"
  /\ Last(x)' = Last(x) /\ printed[x] <= printed'[x]
  /\ interactive' => interactive
  /\ ended'[x] = "result" => ended[x] = "result" \/ (interactive /\ pc'[x] = "running")
  /\ ended'[x] = "result" /\ pc'[x] # "running" => ended[x] = "result" /\ pc[x] # "running"

LEMMA SimpleIs ==
  ASSUME Base, NEW m \in Messages, NEW t \in Inputs, Simple(m, t), NEW x \in Messages
  PROVE  Calm(x)
<1>0. TypeOK /\ Out \in Workers /\ Flush \in Workers /\ Out # Flush /\ m \in Inputs /\ x \in Inputs
      /\ printed[x] \in Nat /\ Holders
  BY Sorts, BoundsAssumption DEF Base, TypeOK
<1>1. CASE StreamWaits(m)
  <2>1. UNCHANGED <<pc, ended, interactive>>
    BY <1>1 DEF StreamWaits, handlers, outcome
  <2>2. CASE x = m
    <3>1. /\ work[m][Out] = "none" /\ printed'[m] = printed[m] + 1
          /\ work'[m] = [work[m] EXCEPT ![Out] = "lock"] /\ work[m] \in [Workers -> States]
      BY <1>0, <1>1 DEF StreamWaits, Prints, TypeOK, States
    <3>2. \A w \in Workers : work'[m][w] = "publishing" <=> work[m][w] = "publishing"
      BY <3>1
    <3>3. Last(m)' = Last(m)
      BY <1>0, <2>2, <3>1 DEF Last
    <3> QED BY <1>0, <2>1, <2>2, <3>1, <3>2, <3>3 DEF Calm
  <2>3. CASE x # m
    BY <1>0, <1>1, <2>1, <2>3 DEF StreamWaits, TypeOK, Last, Calm
  <2> QED BY <2>2, <2>3
<1>2. CASE RunCommand(m) \/ RefuseApp(m) \/ Interrupted(m) \/ RunFails(m) \/ AnswerReturns(m)
  BY <1>0, <1>2 DEF RunCommand, RefuseApp, Interrupted, RunFails, AnswerReturns, Ends, TypeOK,
     outcome, Holders, Running, Last, Calm
<1>3. CASE FlushWaits(m)
  BY <1>0, <1>3 DEF FlushWaits, HasResult, Running, Ends, TypeOK, Holders, Last, Calm
<1>4. CASE IntervalPasses(m)
  BY <1>0, <1>4 DEF IntervalPasses, handlers, outcome, Last, Calm
<1>5. CASE Exit
  BY <1>0, <1>5 DEF Exit, TypeOK, Running, Holders, Last, Calm
<1>6. CASE InputOnly(t)
  BY <1>0, <1>6 DEF InputOnly, IsInput, TypeOK, outcome, Holders, Last, Calm
<1>7. CASE RotateWaits(t)
  BY <1>0, <1>7 DEF RotateWaits, IsInput, TypeOK, outcome, Holders, Last, Calm
<1>8. ASSUME NEW u \in Timers, TimerMoves(m, u) PROVE Calm(x)
  <2>1. PICK to \in States \ {"publishing"} :
          work[m][u] # "publishing" /\ work' = [work EXCEPT ![m] = [work[m] EXCEPT ![u] = to]]
    BY <1>8, TimerMovesIs
  <2>2. UNCHANGED <<pc, ended, interactive, printed>>
    BY <1>8, TimerMovesIs DEF handlers, outcome
  <2>3. \A w \in Workers : w # u => work'[x][w] = work[x][w]
    BY <1>0, <2>1 DEF TypeOK
  <2>4. work'[x][u] = "publishing" <=> work[x][u] = "publishing"
    BY <1>0, <2>1, Sorts DEF TypeOK
  <2>5. work'[x][Out] = work[x][Out]
    BY <1>0, <2>3, Sorts
  <2> QED BY <1>0, <2>2, <2>3, <2>4, <2>5 DEF Calm, Last
<1>9. CASE UNCHANGED vars
  BY <1>0, <1>9 DEF vars, handlers, outcome, Last, Calm
<1> QED BY <1>1, <1>2, <1>3, <1>4, <1>5, <1>6, <1>7, <1>8, <1>9 DEF Simple

-----------------------------------------------------------------------------
(* What a step is for one stream x: one of six kinds.                      *)

(* The messages of x's stream stand where they were, and no new one.       *)
ChatKept(x) ==
  /\ Len(chat) \in Nat /\ Len(chat') \in Nat /\ Len(chat) <= Len(chat')
  /\ \A i \in 1..Len(chat) : chat'[i].of = chat[i].of
  /\ \A i \in 1..Len(chat') : chat'[i].of = x => i <= Len(chat) /\ chat'[i] = chat[i]

Same(x) == buffer'[x] = buffer[x] /\ Last(x)' = Last(x) /\ printed[x] <= printed'[x]
Longer(x) ==
  /\ interactive /\ ended[x] # "result"
  /\ \E k \in 1..MaxChunks : /\ buffer'[x] = Append(buffer[x], k) /\ k = Last(x) + 1
                             /\ Last(x)' = k /\ printed'[x] = k

(* A publish of the buffer from a page on suspends at a page or ends.      *)
Outcome(x, from) ==
  LET pages == Pages(buffer'[x]) IN
  \/ \E at \in Unsent(x, pages, from), w \in Workers :
       /\ \A k \in Unsent(x, pages, from) : at <= k
       /\ sending'[x] = [by |-> w, pages |-> pages, at |-> at,
                         call |-> IF post[x][at].msg = 0 THEN "send" ELSE "edit"]
       /\ lastPages'[x] = lastPages[x]
  \/ Unsent(x, pages, from) = {} /\ lastPages'[x] = pages /\ sending'[x] = None
  \/ buffer'[x] = <<>> /\ lastPages'[x] = lastPages[x] /\ sending'[x] = None

Stays(x) == /\ Same(x) /\ ChatKept(x)
            /\ lastPages'[x] = lastPages[x] /\ sending'[x] = sending[x] /\ post'[x] = post[x]
Starts(x) == /\ sending[x] = None /\ (Same(x) \/ Longer(x))
             /\ Outcome(x, 1) /\ post'[x] = post[x] /\ ChatKept(x)
Shows(x) == /\ sending[x] # None /\ Same(x) /\ chat' = Delivered(x)
            /\ post'[x] = [post[x] EXCEPT ![sending[x].at] =
                             [msg |-> DeliveredAt(x), text |-> Request(x)]]
            /\ Outcome(x, sending[x].at + 1)
Delays(x) == /\ sending[x] = None /\ sending'[x] = None /\ Longer(x) /\ ChatKept(x)
             /\ lastPages'[x] = lastPages[x] /\ post'[x] = post[x]
Rotates(x) == /\ sending[x] = None /\ sending'[x] = None /\ ChatKept(x) /\ chat' = chat
              /\ buffer'[x] = <<>> /\ lastPages'[x] = <<>> /\ post'[x] = Unposted
              /\ Last(x)' = Last(x) /\ printed'[x] = printed[x]
Breaks(x) ==
  /\ sending[x] # None \/ ended[x] # "result"
  /\ failures' # 0 \/ ~Whole(x)'
  /\ Last(x)' = Last(x) \/ ~Whole(x)'
  /\ chat' = chat \/ (sending[x] # None /\ chat' = Delivered(x))
  /\ buffer'[x] = buffer[x] /\ printed'[x] = printed[x] /\ post'[x] = post[x]
  /\ \/ sending'[x] \in {None, sending[x]}
     \/ sending[x] # None /\ sending'[x] = [sending[x] EXCEPT !.call = "again"]
     \/ sending[x] # None /\ Outcome(x, sending[x].at + 1)

Kinds(x) == Stays(x) \/ Starts(x) \/ Shows(x) \/ Delays(x) \/ Rotates(x) \/ Breaks(x)

(* What is delivered for m's stream is not among the messages of x's.      *)
LEMMA ChatKeptIs ==
  ASSUME Base, NEW x \in Messages,
         \/ chat' = chat
         \/ \E m \in Messages \ {x} : sending[m] # None /\ chat' = Delivered(m)
  PROVE  ChatKept(x)
<1>1. Len(chat) \in Nat
  BY LenProperties DEF Base, TypeOK
<1>2. CASE chat' = chat
  BY <1>1, <1>2 DEF ChatKept
<1>3. ASSUME NEW m \in Messages \ {x}, sending[m] # None, chat' = Delivered(m) PROVE ChatKept(x)
  <2>1. /\ Len(Delivered(m)) = IF sending[m].call = "edit" THEN Len(chat) ELSE Len(chat) + 1
        /\ Delivered(m)[DeliveredAt(m)].of = m
        /\ \A i \in 1..Len(chat) : i # DeliveredAt(m) => Delivered(m)[i] = chat[i]
    <3>1. Delivered(m)[DeliveredAt(m)] = [of |-> m, text |-> Request(m)]
      BY <1>3, DeliveredIs DEF Base
    <3>2. /\ Len(Delivered(m)) = IF sending[m].call = "edit" THEN Len(chat) ELSE Len(chat) + 1
          /\ \A i \in 1..Len(chat) : i # DeliveredAt(m) => Delivered(m)[i] = chat[i]
      BY <1>3, DeliveredIs DEF Base
    <3> QED BY <3>1, <3>2
  <2>0. sending[m].call # "edit" => DeliveredAt(m) = Len(chat) + 1
    BY DEF DeliveredAt
  <2>2. \A i \in 1..Len(chat) : Delivered(m)[i].of = chat[i].of
    BY <1>3, DeliveredGrows DEF Base
  <2>3. ASSUME NEW i \in 1..Len(Delivered(m)), Delivered(m)[i].of = x
        PROVE  i <= Len(chat) /\ Delivered(m)[i] = chat[i]
    <3>1. i # DeliveredAt(m)
      BY <2>1, <2>3
    <3>2. i \in 1..Len(chat)
      BY <1>1, <2>0, <2>1, <3>1
    <3> QED BY <1>1, <2>1, <3>1, <3>2
  <2>4. Len(Delivered(m)) \in Nat /\ Len(chat) <= Len(Delivered(m))
    BY <1>1, <2>1
  <2> QED BY <1>1, <1>3, <2>2, <2>3, <2>4 DEF ChatKept
<1> QED BY <1>2, <1>3

(* A stream that a step does not name stays.                               *)
LEMMA OthersStay ==
  ASSUME Base, NEW x \in Messages, ChatKept(x),
         buffer'[x] = buffer[x], lastPages'[x] = lastPages[x], sending'[x] = sending[x],
         post'[x] = post[x], printed'[x] = printed[x], work'[x] = work[x]
  PROVE  Stays(x)
<1>1. printed[x] \in Nat
  BY BoundsAssumption DEF Base, TypeOK
<1> QED BY <1>1 DEF Stays, Same, Last

LEMMA PublishingIs ==
  ASSUME Base, NEW m \in Messages, NEW w \in Workers, NEW from \in Nat \ {0}, NEW states,
         Publishing(m, w, from, states)
  PROVE  /\ Outcome(m, from)
         /\ work'[m][Out] = "lock" <=> w # Out /\ work[m][Out] = "lock"
         /\ \A x \in Messages \ {m} : /\ sending'[x] = sending[x] /\ work'[x] = work[x]
                                      /\ lastPages'[x] = lastPages[x]
<1>1. Published(m, w, buffer'[m], from, states) /\ states \in [Workers -> States]
      /\ states[Out] = work[m][Out]
  BY DEF Publishing
<1>2. Outcome(m, from)
  BY <1>1 DEF Published, Outcome, Begins, Finishes
<1>3. work'[m] \in {[states EXCEPT ![w] = "publishing"], [states EXCEPT ![w] = "none"]}
  BY <1>1 DEF Published, Begins, Finishes
<1>4. work'[m][Out] = "lock" <=> w # Out /\ work[m][Out] = "lock"
  BY <1>1, <1>3, Sorts
<1> QED BY <1>1, <1>2, <1>4 DEF Published

LEMMA GrowsIs ==
  ASSUME Base, NEW m \in Messages, NEW k \in 1..MaxChunks, Grows(m, k), work'[m][Out] # "lock"
  PROVE  /\ Longer(m)
         /\ \A x \in Messages \ {m} : buffer'[x] = buffer[x] /\ printed'[x] = printed[x]
<1>1. printed[m] \in Nat /\ k \in Nat /\ printed \in [Messages -> 0..MaxChunks]
      /\ buffer \in [Messages -> Text]
  BY BoundsAssumption DEF Base, TypeOK
<1>2. interactive /\ ended[m] # "result"
  BY DEF Base, Holders, Grows, Prints, Running
<1>3. k = Last(m) + 1
  BY <1>1 DEF Grows, Prints, Last
<1>4. buffer'[m] = Append(buffer[m], k) /\ printed'[m] = k
      /\ \A x \in Messages \ {m} : buffer'[x] = buffer[x] /\ printed'[x] = printed[x]
  BY <1>1 DEF Grows
<1>5. Last(m)' = k
  BY <1>4 DEF Last
<1> QED BY <1>2, <1>3, <1>4, <1>5 DEF Longer

LEMMA StreamPublishesKinds ==
  ASSUME Base, NEW m \in Messages, NEW k \in 1..MaxChunks, StreamPublishes(m, k), NEW x \in Messages
  PROVE  Kinds(x)
<1>1. /\ Publishing(m, Out, 1, TimerCancelled(m)) /\ Grows(m, k) /\ sending[m] = None
      /\ UNCHANGED <<post, chat>>
  BY StreamPublishesIs
<1>2. ChatKept(x)
  BY <1>1, ChatKeptIs
<1>3. /\ Outcome(m, 1) /\ work'[m][Out] # "lock"
      /\ \A y \in Messages \ {m} : /\ sending'[y] = sending[y] /\ work'[y] = work[y]
                                   /\ lastPages'[y] = lastPages[y]
  BY <1>1, Sorts, PublishingIs
<1>4. /\ Longer(m)
      /\ \A y \in Messages \ {m} : buffer'[y] = buffer[y] /\ printed'[y] = printed[y]
  BY <1>1, <1>3, GrowsIs
<1>5. CASE x = m
  BY <1>1, <1>2, <1>3, <1>4, <1>5 DEF Starts, Kinds
<1>6. CASE x # m
  BY <1>1, <1>2, <1>3, <1>4, <1>6, OthersStay DEF Kinds
<1> QED BY <1>5, <1>6

(* delayed_publish and flush publish the buffer as it is.                  *)
LEMMA PublishesKinds ==
  ASSUME Base, NEW m \in Messages, NEW w \in Workers \ {Out}, NEW states, NEW x \in Messages,
         Publishing(m, w, 1, states), sending[m] = None, UNCHANGED <<buffer, printed, post, chat>>
  PROVE  Kinds(x)
<1>1. ChatKept(x)
  BY ChatKeptIs
<1>2. /\ Outcome(m, 1)
      /\ work'[m][Out] = "lock" <=> work[m][Out] = "lock"
      /\ \A y \in Messages \ {m} : /\ sending'[y] = sending[y] /\ work'[y] = work[y]
                                   /\ lastPages'[y] = lastPages[y]
  BY PublishingIs
<1>3. CASE x = m
  <2>1. printed[m] \in Nat
    BY BoundsAssumption DEF Base, TypeOK
  <2> QED BY <1>1, <1>2, <1>3, <2>1 DEF Starts, Same, Last, Kinds
<1>4. CASE x # m
  BY <1>1, <1>2, <1>4, OthersStay DEF Kinds
<1> QED BY <1>3, <1>4

LEMMA AnsweredKinds ==
  ASSUME Base, NEW m \in Messages, Answered(m), NEW x \in Messages
  PROVE  Kinds(x)
<1>1. /\ sending[m] # None /\ sending[m].by \in Workers /\ sending[m].at + 1 \in Nat \ {0}
      /\ Publishing(m, sending[m].by, sending[m].at + 1, work[m])
      /\ UNCHANGED <<printed, buffer>> /\ chat' = Delivered(m)
      /\ post' = [post EXCEPT ![m][sending[m].at] = [msg |-> DeliveredAt(m), text |-> Request(m)]]
      /\ work[m][sending[m].by] = "publishing"
  <2>1. sending[m] # None
    BY AnsweredIs
  <2> QED BY <2>1, AnsweredIs, SendingIs, TypeParts DEF Base, LockIsPublish
<1>2. /\ Outcome(m, sending[m].at + 1)
      /\ work'[m][Out] = "lock" <=> work[m][Out] = "lock"
      /\ \A y \in Messages \ {m} : /\ sending'[y] = sending[y] /\ work'[y] = work[y]
                                   /\ lastPages'[y] = lastPages[y]
  BY <1>1, PublishingIs
<1>3. post \in [Messages -> [1..MaxPages -> [msg : Nat, text : Text]]] /\ printed[m] \in Nat
  BY BoundsAssumption DEF Base, TypeOK
<1>4. CASE x = m
  <2>1. post'[m] = [post[m] EXCEPT ![sending[m].at] = [msg |-> DeliveredAt(m), text |-> Request(m)]]
    BY <1>1, <1>3
  <2> QED BY <1>1, <1>2, <1>3, <1>4, <2>1 DEF Shows, Same, Last, Kinds
<1>5. CASE x # m
  <2>1. post'[x] = post[x]
    BY <1>1, <1>3, <1>5
  <2>2. ChatKept(x)
    BY <1>1, <1>5, ChatKeptIs
  <2> QED BY <1>1, <1>2, <1>5, <2>1, <2>2, OthersStay DEF Kinds
<1> QED BY <1>4, <1>5

LEMMA GivesUpKinds ==
  ASSUME Base, NEW m \in Messages, GivesUp(m), NEW x \in Messages
  PROVE  Kinds(x)
<1>1. /\ sending[m] # None /\ sending[m].by \in Workers /\ sending[m].at + 1 \in Nat \ {0}
      /\ Publishing(m, sending[m].by, sending[m].at + 1, work[m])
      /\ UNCHANGED <<printed, buffer, post>> /\ failures' # 0 /\ chat' \in {chat, Delivered(m)}
      /\ work[m][sending[m].by] = "publishing"
  <2>1. sending[m] # None
    BY GivesUpIs
  <2> QED BY <2>1, GivesUpIs, SendingIs, TypeParts DEF Base, LockIsPublish
<1>2. /\ Outcome(m, sending[m].at + 1)
      /\ work'[m][Out] = "lock" <=> work[m][Out] = "lock"
      /\ \A y \in Messages \ {m} : /\ sending'[y] = sending[y] /\ work'[y] = work[y]
                                   /\ lastPages'[y] = lastPages[y]
  BY <1>1, PublishingIs
<1>3. CASE x = m
  BY <1>1, <1>2, <1>3 DEF Breaks, Last, Kinds
<1>4. CASE x # m
  BY <1>1, <1>2, <1>4, ChatKeptIs, OthersStay DEF Kinds
<1> QED BY <1>3, <1>4

LEMMA SendsAgainKinds ==
  ASSUME Base, NEW m \in Messages, SendsAgain(m), NEW x \in Messages
  PROVE  Kinds(x)
<1>1. /\ sending[m] # None /\ failures' # 0 /\ chat' \in {chat, Delivered(m)}
      /\ sending' = [sending EXCEPT ![m].call = "again"]
      /\ UNCHANGED <<printed, buffer, lastPages, work, post>>
  BY SendsAgainIs DEF context
<1>2. sending \in [Messages -> Sending \cup {None}]
  BY DEF Base, TypeOK
<1>3. CASE x = m
  BY <1>1, <1>2, <1>3 DEF Breaks, Last, Kinds
<1>4. CASE x # m
  BY <1>1, <1>2, <1>4, ChatKeptIs, OthersStay DEF Kinds
<1> QED BY <1>3, <1>4

LEMMA StreamCutKinds ==
  ASSUME Base, NEW m \in Messages, StreamCut(m), NEW x \in Messages
  PROVE  Kinds(x)
<1>1. /\ ~interactive /\ work[m][Out] # "none" /\ work' = [work EXCEPT ![m][Out] = "none"]
      /\ \/ UNCHANGED <<sending, chat>>
         \/ /\ sending[m] # None /\ sending' = [sending EXCEPT ![m] = None]
            /\ chat' \in {chat, Delivered(m)}
      /\ UNCHANGED <<ended, interactive, printed, buffer, lastPages, post>>
  BY StreamCutIs DEF handlers, outcome, context
<1>2. sending \in [Messages -> Sending \cup {None}] /\ work \in [Messages -> [Workers -> States]]
  BY DEF Base, TypeOK, States
<1>3. CASE x = m
  <2>1. ~Whole(m)' /\ ended[m] # "result"
    BY <1>1 DEF Base, Holders, Whole
  <2> QED BY <1>1, <1>2, <1>3, <2>1 DEF Breaks, Kinds
<1>4. CASE x # m
  <2>1. ChatKept(x)
    BY <1>1, <1>4, ChatKeptIs
  <2> QED BY <1>1, <1>2, <1>4, <2>1, OthersStay DEF Kinds
<1> QED BY <1>3, <1>4

LEMMA StreamDelaysKinds ==
  ASSUME Base, NEW m \in Messages, NEW k \in 1..MaxChunks, StreamDelays(m, k), NEW x \in Messages
  PROVE  Kinds(x)
<1>1. /\ Grows(m, k) /\ sending[m] = None /\ UNCHANGED <<lastPages, sending, post, chat>>
  BY StreamDelaysIs DEF telegram
<1>2. PICK states \in [Workers -> States] : work' = [work EXCEPT ![m] = states] /\ states[Out] = "none"
  BY StreamDelaysIs
<1>3. work \in [Messages -> [Workers -> States]]
  BY DEF Base, TypeOK, States
<1>4. work'[m][Out] # "lock" /\ \A y \in Messages \ {m} : work'[y] = work[y]
  BY <1>2, <1>3
<1>5. /\ Longer(m)
      /\ \A y \in Messages \ {m} : buffer'[y] = buffer[y] /\ printed'[y] = printed[y]
  BY <1>1, <1>4, GrowsIs
<1>6. CASE x = m
  BY <1>1, <1>5, <1>6, ChatKeptIs DEF Delays, Kinds
<1>7. CASE x # m
  BY <1>1, <1>4, <1>5, <1>7, ChatKeptIs, OthersStay DEF Kinds
<1> QED BY <1>6, <1>7

LEMMA RotateKinds ==
  ASSUME Base, NEW t \in Inputs, NEW m \in Messages, Rotate(t, m), NEW x \in Messages
  PROVE  Kinds(x)
<1>1. /\ sending[m] = None
      /\ work' = [work EXCEPT ![m] = TimerCancelled(m)]
      /\ buffer' = [buffer EXCEPT ![m] = <<>>] /\ post' = [post EXCEPT ![m] = Unposted]
      /\ lastPages' = [lastPages EXCEPT ![m] = <<>>]
      /\ UNCHANGED <<printed, sending, chat>>
  BY RotateIs
<1>2. /\ buffer \in [Messages -> Text] /\ lastPages \in [Messages -> Seq(Text)]
      /\ work \in [Messages -> [Workers -> States]]
      /\ post \in [Messages -> [1..MaxPages -> [msg : Nat, text : Text]]]
  BY DEF Base, TypeOK, States
<1>3. CASE x = m
  <2>1. Last(m)' = Last(m)
    BY <1>1, <1>2, NobodyPublishes DEF Last
  <2> QED BY <1>1, <1>2, <1>3, <2>1, ChatKeptIs DEF Rotates, Kinds
<1>4. CASE x # m
  BY <1>1, <1>2, <1>4, ChatKeptIs, OthersStay DEF Kinds
<1> QED BY <1>3, <1>4

LEMMA SimpleKinds ==
  ASSUME Base, NEW m \in Messages, NEW t \in Inputs, Simple(m, t), NEW x \in Messages
  PROVE  Kinds(x)
BY SimpleTypes, SimpleIs, ChatKeptIs DEF Calm, Stays, Same, Kinds

-----------------------------------------------------------------------------
(* What a step does to the handlers and to the locks of the streams.       *)

(* A handler gets past its flush only with nothing left to be sent.        *)
Flow(x) ==
  /\ interactive' => interactive
  /\ ended'[x] = "result" => ended[x] = "result" \/ interactive
  /\ ended'[x] = "result" /\ pc'[x] # "running" =>
       (ended[x] = "result" /\ pc[x] # "running") \/ Settled(x)'

Orderly == Holders' /\ LockIsPublish' /\ \A x \in Messages : Flow(x)

LEMMA SendingRecord ==
  ASSUME NEW m \in Messages, NEW b \in Text, NEW from \in Nat \ {0}, NEW w \in Workers,
         NEW at \in Unsent(m, Pages(b), from), NEW call \in {"send", "edit"}
  PROVE  /\ [by |-> w, pages |-> Pages(b), at |-> at, call |-> call] # None
         /\ at \in from..Len(Pages(b)) /\ at \in 1..Len(Pages(b))
<1>1. Pages(b) \in Seq(Text) /\ Len(Pages(b)) \in Nat
  BY PageTypes
<1>2. at \in from..Len(Pages(b)) /\ at \in 1..Len(Pages(b)) /\ at \in Nat \ {0}
  BY <1>1 DEF Unsent
<1>3. [by |-> w, pages |-> Pages(b), at |-> at, call |-> call] \in Sending
  BY <1>1, <1>2 DEF Sending
<1> QED BY <1>2, <1>3, NoneAssumption

LEMMA PublishingLock ==
  ASSUME Base, NEW m \in Messages, NEW w \in Workers, NEW from \in Nat \ {0}, NEW states,
         Publishing(m, w, from, states), buffer'[m] \in Text
  PROVE  LockIsPublish'
<1>1. /\ Published(m, w, buffer'[m], from, states) /\ states \in [Workers -> States]
      /\ \A y \in Workers : states[y] = "publishing" => y = w
  BY DEF Publishing
<1>2. \A x \in Messages \ {m} : sending'[x] = sending[x] /\ work'[x] = work[x]
  BY <1>1 DEF Published
<1>3. \/ /\ sending'[m] # None /\ sending'[m].by = w
         /\ work'[m] = [states EXCEPT ![w] = "publishing"]
      \/ sending'[m] = None /\ work'[m] = [states EXCEPT ![w] = "none"]
  <2>1. CASE Begins(m, w, Pages(buffer'[m]), from, states)
    <3>1. PICK at \in Unsent(m, Pages(buffer'[m]), from) :
             sending'[m] = [by |-> w, pages |-> Pages(buffer'[m]), at |-> at,
                            call |-> IF post[m][at].msg = 0 THEN "send" ELSE "edit"]
      BY <2>1 DEF Begins
    <3>2. sending'[m].by = w /\ sending'[m] # None
      BY <3>1, SendingRecord
    <3>3. work'[m] = [states EXCEPT ![w] = "publishing"]
      BY <2>1 DEF Begins
    <3> QED BY <1>1, <3>2, <3>3
  <2>2. CASE Finishes(m, w, states)
    BY <2>2 DEF Finishes
  <2> QED BY <1>1, <2>1, <2>2 DEF Published
<1>4. /\ sending'[m] # None => work'[m][sending'[m].by] = "publishing"
      /\ \A y \in Workers : work'[m][y] = "publishing" => sending'[m] # None /\ sending'[m].by = y
  BY <1>1, <1>3
<1> QED BY <1>2, <1>4 DEF Base, LockIsPublish

LEMMA PublishingHandlers ==
  ASSUME Base, NEW m \in Messages, NEW w \in Workers, NEW from \in Nat \ {0}, NEW states,
         Publishing(m, w, from, states), interactive' = interactive,
         \A x \in Messages \ {m} : ended'[x] = ended[x],
         w = Flush => /\ pc[m] = "running" /\ ended'[m] = "result" /\ work[m][Out] = "none"
                      /\ (interactive \/ ended[m] = "result"),
         w # Flush => ended'[m] = ended[m],
         w = Out => ended[m] # "result", buffer'[m] \in Text
  PROVE  Orderly
<1>1. /\ Published(m, w, buffer'[m], from, states) /\ states \in [Workers -> States]
      /\ states[Out] = work[m][Out] /\ states[Flush] = work[m][Flush]
  BY DEF Publishing
<1>2. /\ pc \in [Inputs -> {"idle", "running", "answering", "rotating", "done"}]
      /\ Messages \subseteq Inputs /\ Holders /\ Out # Flush
      /\ None \notin Messages /\ Out \in Workers /\ Flush \in Workers
  BY Sorts DEF Base, TypeOK
<1>3. \/ /\ UNCHANGED <<pc, shellLock>> /\ work'[m] = [states EXCEPT ![w] = "publishing"]
      \/ Settled(m)' /\ Finishes(m, w, states)
  BY <1>1 DEF Published, Begins, Finishes, Settled
<1>4. \A x \in Messages \ {m} : work'[x] = work[x] /\ pc'[x] = pc[x]
  <2>1. UNCHANGED pc \/ pc' = [pc EXCEPT ![m] = "answering"] \/ pc' = [pc EXCEPT ![m] = "done"]
    BY <1>3 DEF Finishes
  <2> QED BY <1>1, <1>2, <2>1 DEF Published
<1>5. \/ UNCHANGED <<pc, shellLock>>
      \/ /\ w = Flush /\ work'[m][Flush] = "none"
         /\ \/ pc'[m] = "answering" /\ shellLock' = shellLock
            \/ pc'[m] = "done" /\ shellLock' = None
  BY <1>1, <1>2, <1>3 DEF Finishes
<1>6. /\ w # Out => work'[m][Out] = work[m][Out]
      /\ w # Flush => work'[m][Flush] = work[m][Flush]
  BY <1>1, <1>2, <1>3 DEF Finishes
<1>7. ASSUME NEW x \in Messages
      PROVE  /\ pc'[x] \in {"running", "answering"} => shellLock' = x
             /\ pc'[x] = "running" /\ ended'[x] = "no" => interactive'
             /\ pc'[x] \in {"idle", "rotating"} => ended'[x] = "no"
             /\ ended'[x] = "result" => work'[x][Out] = "none"
             /\ work'[x][Flush] # "none" => pc'[x] = "running" /\ ended'[x] = "result"
  <2>1. CASE x = m
    BY <1>2, <1>5, <1>6, <2>1 DEF Holders
  <2>2. CASE x # m
    <3>1. pc[x] \in {"running", "answering"} => shellLock' = x
      BY <1>2, <1>5, <2>2 DEF Holders
    <3> QED BY <1>2, <1>4, <2>2, <3>1 DEF Holders
  <2> QED BY <2>1, <2>2
<1>8. ASSUME NEW x \in Messages PROVE Flow(x)
  <2>1. CASE x = m
    <3>1. ended'[m] = "result" => ended[m] = "result" \/ interactive
      OBVIOUS
    <3>2. CASE UNCHANGED pc
      BY <1>3, <2>1, <3>1, <3>2 DEF Flow
    <3>3. CASE Settled(m)'
      BY <2>1, <3>1, <3>3 DEF Flow
    <3> QED BY <1>3, <3>2, <3>3
  <2>2. CASE x # m
    BY <1>4, <2>2 DEF Flow
  <2> QED BY <2>1, <2>2
<1> QED BY <1>7, <1>8, PublishingLock DEF Orderly, Holders

LEMMA StreamPublishesOrderly ==
  ASSUME Base, NEW m \in Messages, NEW k \in 1..MaxChunks, StreamPublishes(m, k)
  PROVE  Orderly
<1>1. /\ buffer'[m] \in Text /\ Publishing(m, Out, 1, TimerCancelled(m)) /\ Grows(m, k)
      /\ UNCHANGED <<ended, interactive>>
  BY StreamPublishesIs DEF TypeOK
<1>2. ended[m] # "result"
  BY <1>1 DEF Base, Holders, Grows, Prints, Running
<1> QED BY <1>1, <1>2, Sorts, PublishingHandlers

LEMMA TimerPublishesOrderly ==
  ASSUME Base, NEW m \in Messages, NEW t \in Timers, TimerPublishes(m, t)
  PROVE  Orderly
<1>1. /\ buffer'[m] \in Text /\ Publishing(m, t, 1, work[m]) /\ UNCHANGED <<ended, interactive>>
  BY TimerPublishesIs DEF TypeOK
<1>2. t \in Workers /\ t # Out /\ t # Flush
  BY Sorts
<1> QED BY <1>1, <1>2, PublishingHandlers

LEMMA FlushStartsOrderly ==
  ASSUME Base, NEW m \in Messages, FlushStarts(m)
  PROVE  Orderly
<1>1. /\ buffer'[m] \in Text /\ Publishing(m, Flush, 1, TimerCancelled(m)) /\ (HasResult(m) \/ work[m][Flush] = "lock")
      /\ ended' = [ended EXCEPT ![m] = "result"] /\ interactive' = interactive
  BY FlushStartsIs DEF TypeOK
<1>2. /\ ended'[m] = "result" /\ \A x \in Messages \ {m} : ended'[x] = ended[x]
  BY <1>1 DEF Base, TypeOK
<1>3. /\ pc[m] = "running" /\ work[m][Out] = "none" /\ (interactive \/ ended[m] = "result")
  BY <1>1 DEF HasResult, Running, Base, Holders
<1> QED BY <1>1, <1>2, <1>3, Sorts, PublishingHandlers

LEMMA GoesOnOrderly ==
  ASSUME Base, NEW m \in Messages, sending[m] # None, UNCHANGED <<ended, interactive, buffer>>,
         Publishing(m, sending[m].by, sending[m].at + 1, work[m])
  PROVE  Orderly
<1>1. /\ sending[m].by \in Workers /\ sending[m].at + 1 \in Nat \ {0}
      /\ work[m][sending[m].by] = "publishing" /\ buffer'[m] \in Text
  BY SendingIs, TypeParts DEF Base, LockIsPublish, TypeOK
<1>2. /\ sending[m].by = Flush => pc[m] = "running" /\ ended[m] = "result" /\ work[m][Out] = "none"
      /\ sending[m].by = Out => ended[m] # "result"
  BY <1>1 DEF Base, Holders
<1> QED BY <1>1, <1>2, PublishingHandlers

(* A step that leaves the handlers alone and starts no publish.            *)
LEMMA WorkersOrderly ==
  ASSUME Base, NEW m \in Messages, UNCHANGED <<pc, shellLock, ended, interactive>>,
         \A x \in Messages \ {m} : sending'[x] = sending[x] /\ work'[x] = work[x],
         ended[m] = "result" => work'[m][Out] = "none",
         work'[m][Flush] # "none" => work[m][Flush] # "none",
         sending'[m] # None => /\ sending[m] # None /\ sending'[m].by = sending[m].by
                               /\ work'[m][sending[m].by] = "publishing",
         \A w \in Workers : work'[m][w] = "publishing" =>
                              work[m][w] = "publishing" /\ sending'[m] # None
  PROVE  Orderly
<1>1. Holders'
  <2>1. \A x \in Messages : work'[x][Flush] # "none" => work[x][Flush] # "none"
    OBVIOUS
  <2>2. \A x \in Messages : ended[x] = "result" => work'[x][Out] = "none"
    BY DEF Base, Holders
  <2> QED BY <2>1, <2>2 DEF Base, Holders
<1>2. LockIsPublish'
  <2>1. \A w \in Workers : work'[m][w] = "publishing" => sending'[m] # None /\ sending'[m].by = w
    BY DEF Base, LockIsPublish
  <2> QED BY <2>1 DEF Base, LockIsPublish
<1>3. \A x \in Messages : Flow(x)
  BY DEF Flow
<1> QED BY <1>1, <1>2, <1>3 DEF Orderly

LEMMA StreamCutOrderly ==
  ASSUME Base, NEW m \in Messages, StreamCut(m)
  PROVE  Orderly
<1>1. /\ work[m][Out] # "none" /\ work' = [work EXCEPT ![m][Out] = "none"]
      /\ \/ UNCHANGED sending /\ work[m][Out] = "lock"
         \/ /\ sending[m] # None /\ sending[m].by = Out
            /\ sending' = [sending EXCEPT ![m] = None]
      /\ UNCHANGED <<pc, shellLock, ended, interactive>>
  BY StreamCutIs DEF handlers, outcome
<1>2. /\ sending \in [Messages -> Sending \cup {None}] /\ work \in [Messages -> [Workers -> States]]
      /\ Out \in Workers /\ Flush \in Workers /\ Out # Flush
  BY Sorts DEF Base, TypeOK, States
<1>3. /\ \A x \in Messages \ {m} : sending'[x] = sending[x] /\ work'[x] = work[x]
      /\ work'[m] = [work[m] EXCEPT ![Out] = "none"]
  BY <1>1, <1>2
<1>4. sending'[m] # None => /\ sending[m] # None /\ sending'[m].by = sending[m].by
                            /\ work'[m][sending[m].by] = "publishing"
  BY <1>1, <1>2, <1>3 DEF Base, LockIsPublish
<1>5. \A w \in Workers : work'[m][w] = "publishing" =>
                           work[m][w] = "publishing" /\ sending'[m] # None
  <2>1. SUFFICES ASSUME NEW w \in Workers, work'[m][w] = "publishing"
                 PROVE  work[m][w] = "publishing" /\ sending'[m] # None
    OBVIOUS
  <2>2. w # Out /\ work[m][w] = "publishing"
    BY <1>2, <1>3, <2>1
  <2>3. sending[m] # None /\ sending[m].by = w
    BY <2>2 DEF Base, LockIsPublish
  <2> QED BY <1>1, <2>2, <2>3
<1>6. work'[m][Flush] = work[m][Flush] /\ work'[m][Out] = "none"
  BY <1>2, <1>3
<1> QED BY <1>1, <1>3, <1>4, <1>5, <1>6, WorkersOrderly

LEMMA StreamDelaysOrderly ==
  ASSUME Base, NEW m \in Messages, NEW k \in 1..MaxChunks, StreamDelays(m, k)
  PROVE  Orderly
<1>1. sending[m] = None /\ UNCHANGED <<pc, shellLock, ended, interactive, sending>>
  BY StreamDelaysIs DEF handlers, outcome
<1>2. PICK states \in [Workers -> States] :
        /\ work' = [work EXCEPT ![m] = states]
        /\ states[Out] = "none" /\ states[Flush] = work[m][Flush]
        /\ \A w \in Workers : states[w] # "publishing"
  BY StreamDelaysIs
<1>3. work'[m] = states /\ \A x \in Messages \ {m} : work'[x] = work[x]
  BY <1>2 DEF Base, TypeOK
<1> QED BY <1>1, <1>2, <1>3, WorkersOrderly

LEMMA SendsAgainOrderly ==
  ASSUME Base, NEW m \in Messages, SendsAgain(m)
  PROVE  Orderly
<1>1. /\ sending[m] # None /\ sending' = [sending EXCEPT ![m].call = "again"]
      /\ UNCHANGED <<pc, shellLock, ended, interactive, work>>
  BY SendsAgainIs DEF handlers, outcome
<1>2. /\ sending'[m] = [sending[m] EXCEPT !.call = "again"] /\ sending[m] \in Sending
      /\ \A x \in Messages \ {m} : sending'[x] = sending[x]
  BY <1>1, TypeParts, SendingIs DEF Base, TypeOK
<1>3. sending'[m].by = sending[m].by /\ sending'[m] \in Sending
  BY <1>2 DEF Sending
<1>4. sending'[m] # None
  BY <1>3, NoneAssumption
<1> QED BY <1>1, <1>2, <1>3, <1>4, WorkersOrderly DEF Base, LockIsPublish, Holders

LEMMA RotateOrderly ==
  ASSUME Base, NEW t \in Inputs, NEW m \in Messages, Rotate(t, m)
  PROVE  Orderly
<1>1. /\ sending[m] = None /\ work' = [work EXCEPT ![m] = TimerCancelled(m)]
      /\ pc' = [pc EXCEPT ![t] = "done"] /\ pc[t] \in {"idle", "rotating"}
      /\ buffer' = [buffer EXCEPT ![m] = <<>>]
      /\ UNCHANGED <<shellLock, ended, interactive, sending>>
  BY RotateIs
<1>2. /\ pc \in [Inputs -> {"idle", "running", "answering", "rotating", "done"}]
      /\ work \in [Messages -> [Workers -> States]] /\ Messages \subseteq Inputs
      /\ Out \in Workers /\ Flush \in Workers
  BY Sorts DEF Base, TypeOK, States
<1>3. \A x \in Messages \ {m} : work'[x] = work[x]
  BY <1>1, <1>2
<1>4. /\ work'[m][Out] = work[m][Out] /\ work'[m][Flush] = work[m][Flush]
      /\ \A w \in Workers : work'[m][w] # "publishing"
  BY <1>1, <1>2, NobodyPublishes
<1>5. \A x \in Messages : pc'[x] = pc[x] \/ (pc'[x] = "done" /\ ended[x] = "no")
  BY <1>1, <1>2 DEF Base, Holders
<1>6. \A x \in Messages : work'[x][Out] = work[x][Out] /\ work'[x][Flush] = work[x][Flush]
  BY <1>3, <1>4
<1>7. Holders'
  BY <1>1, <1>5, <1>6 DEF Base, Holders
<1>8. LockIsPublish'
  BY <1>1, <1>3, <1>4 DEF Base, LockIsPublish
<1>9. \A x \in Messages : Flow(x)
  BY <1>1, <1>5 DEF Flow
<1> QED BY <1>7, <1>8, <1>9 DEF Orderly

LEMMA SimpleOrderly ==
  ASSUME Base, NEW m \in Messages, NEW t \in Inputs, Simple(m, t)
  PROVE  Orderly
<1>0. /\ TypeOK /\ Out \in Workers /\ Flush \in Workers /\ Out # Flush /\ m \in Inputs
      /\ Messages \subseteq Inputs /\ Holders /\ None \notin Messages
  BY Sorts DEF Base
<1>1. Holders'
  <2>1. CASE StreamWaits(m)
    BY <1>0, <2>1 DEF StreamWaits, Prints, Running, TypeOK, handlers, outcome, Holders
  <2>2. CASE RunCommand(m)
    BY <1>0, <2>2 DEF RunCommand, TypeOK, outcome, Holders
  <2>3. CASE RefuseApp(m)
    BY <1>0, <2>3 DEF RefuseApp, TypeOK, outcome, Holders
  <2>4. CASE FlushWaits(m)
    BY <1>0, <2>4 DEF FlushWaits, HasResult, Running, Ends, TypeOK, Holders
  <2>5. CASE Interrupted(m)
    BY <1>0, <2>5 DEF Interrupted, Running, Ends, TypeOK, Holders
  <2>6. CASE RunFails(m)
    BY <1>0, <2>6 DEF RunFails, Running, Ends, TypeOK, Holders
  <2>7. CASE AnswerReturns(m)
    BY <1>0, <2>7 DEF AnswerReturns, TypeOK, outcome, Holders
  <2>8. CASE IntervalPasses(m)
    BY <1>0, <2>8 DEF IntervalPasses, handlers, outcome, Holders
  <2>9. CASE Exit
    BY <1>0, <2>9 DEF Exit, Running, TypeOK, Holders
  <2>10. CASE InputOnly(t) \/ RotateWaits(t)
    <3>1. /\ UNCHANGED <<shellLock, ended, interactive, work>> /\ pc[t] = "idle"
          /\ pc' = [pc EXCEPT ![t] = "done"] \/ pc' = [pc EXCEPT ![t] = "rotating"]
      BY <2>10 DEF InputOnly, RotateWaits, IsInput, outcome
    <3>2. \A x \in Messages : pc'[x] = pc[x] \/ (pc'[x] \in {"done", "rotating"} /\ pc[x] = "idle")
      BY <1>0, <3>1 DEF TypeOK
    <3> QED BY <1>0, <3>1, <3>2 DEF Holders
  <2>11. ASSUME NEW u \in Timers, TimerMoves(m, u) PROVE Holders'
    <3>1. PICK to \in States \ {"publishing"} :
            work[m][u] # "publishing" /\ work' = [work EXCEPT ![m] = [work[m] EXCEPT ![u] = to]]
      BY <1>0, <2>11, TimerMovesIs
    <3>2. \A x \in Messages : work'[x][Out] = work[x][Out] /\ work'[x][Flush] = work[x][Flush]
      BY <1>0, <3>1, Sorts DEF TypeOK
    <3>3. UNCHANGED <<pc, shellLock, ended, interactive>>
      BY <2>11, TimerMovesIs DEF handlers, outcome
    <3> QED BY <1>0, <3>2, <3>3 DEF Holders
  <2>12. CASE UNCHANGED vars
    BY <1>0, <2>12 DEF vars, handlers, outcome, Holders
  <2> QED BY <2>1, <2>2, <2>3, <2>4, <2>5, <2>6, <2>7, <2>8, <2>9, <2>10, <2>11, <2>12 DEF Simple
<1>2. LockIsPublish'
  <2>1. \A x \in Messages : \A w \in Workers :
          work'[x][w] = "publishing" <=> work[x][w] = "publishing"
    BY SimpleIs DEF Calm
  <2>2. /\ sending' = sending
        /\ \A x \in Messages : sending[x] # None => sending[x].by \in Workers
    BY SimpleTypes, SendingIs, TypeParts DEF Base
  <2> QED BY <2>1, <2>2 DEF Base, LockIsPublish
<1>3. \A x \in Messages : Flow(x)
  BY SimpleIs DEF Calm, Flow
<1> QED BY <1>1, <1>2, <1>3 DEF Orderly

(* What every step of the system does.                                     *)
Delivers == chat' = chat \/ \E m \in Messages : sending[m] # None /\ chat' = Delivered(m)
Moves == TypeOK' /\ Orderly /\ Delivers /\ (failures' = 0 => failures = 0)
         /\ \A x \in Messages : Kinds(x)

LEMMA StepMoves ==
  ASSUME Base, [Next]_vars
  PROVE  Moves
<1>0. failures \in Nat
  BY DEF Base, TypeOK
<1>1. ASSUME NEW m \in Messages, NEW k \in 1..MaxChunks, StreamPublishes(m, k) PROVE Moves
  BY <1>1, StreamPublishesIs, StreamPublishesKinds, StreamPublishesOrderly DEF Moves, Delivers
<1>2. ASSUME NEW m \in Messages, NEW t \in Timers, TimerPublishes(m, t) PROVE Moves
  BY <1>2, Sorts, TimerPublishesIs, PublishesKinds, TimerPublishesOrderly DEF Moves, Delivers
<1>3. ASSUME NEW m \in Messages, FlushStarts(m) PROVE Moves
  BY <1>3, Sorts, FlushStartsIs, PublishesKinds, FlushStartsOrderly DEF Moves, Delivers
<1>4. ASSUME NEW m \in Messages, Answered(m) PROVE Moves
  <2>1. /\ TypeOK' /\ sending[m] # None /\ chat' = Delivered(m)
        /\ Publishing(m, sending[m].by, sending[m].at + 1, work[m])
        /\ UNCHANGED <<ended, interactive, buffer, failures>>
    BY <1>4, AnsweredIs
  <2> QED BY <1>4, <2>1, GoesOnOrderly, AnsweredKinds DEF Moves, Delivers
<1>5. ASSUME NEW m \in Messages, GivesUp(m) PROVE Moves
  <2>1. /\ TypeOK' /\ sending[m] # None /\ chat' \in {chat, Delivered(m)} /\ failures' # 0
        /\ Publishing(m, sending[m].by, sending[m].at + 1, work[m])
        /\ UNCHANGED <<ended, interactive, buffer>>
    BY <1>5, GivesUpIs
  <2> QED BY <1>5, <2>1, GoesOnOrderly, GivesUpKinds DEF Moves, Delivers
<1>6. ASSUME NEW m \in Messages, SendsAgain(m) PROVE Moves
  BY <1>6, SendsAgainIs, SendsAgainKinds, SendsAgainOrderly DEF Moves, Delivers
<1>7. ASSUME NEW m \in Messages, StreamCut(m) PROVE Moves
  BY <1>7, StreamCutIs, StreamCutKinds, StreamCutOrderly DEF Moves, Delivers
<1>8. ASSUME NEW m \in Messages, NEW k \in 1..MaxChunks, StreamDelays(m, k) PROVE Moves
  BY <1>8, StreamDelaysIs, StreamDelaysKinds, StreamDelaysOrderly DEF Moves, Delivers, telegram
<1>9. ASSUME NEW t \in Inputs, NEW m \in Messages, Rotate(t, m) PROVE Moves
  BY <1>9, RotateIs, RotateKinds, RotateOrderly DEF Moves, Delivers
<1>10. ASSUME NEW m \in Messages, NEW t \in Inputs, Simple(m, t) PROVE Moves
  BY <1>10, SimpleTypes, SimpleKinds, SimpleOrderly DEF Moves, Delivers
<1>11. ASSUME NEW m \in Messages,
              \/ OnStream(m) \/ PublishReturns(m) \/ Command(m) \/ IntervalPasses(m)
              \/ \E t \in Timers : DelayedPublish(m, t)
       PROVE  Moves
  <2>1. PICK i \in Inputs : TRUE
    BY <1>11, Sorts
  <2>2. CASE OnStream(m)
    BY <1>1, <1>7, <1>8, <1>10, <2>1, <2>2 DEF OnStream, Simple
  <2>3. CASE PublishReturns(m)
    BY <1>4, <1>5, <1>6, <2>3 DEF PublishReturns
  <2>4. CASE Command(m) \/ IntervalPasses(m)
    BY <1>3, <1>10, <2>1, <2>4 DEF Command, Simple
  <2>5. ASSUME NEW t \in Timers, DelayedPublish(m, t) PROVE Moves
    BY <1>2, <1>10, <2>1, <2>5 DEF DelayedPublish, Simple, TimerMoves
  <2> QED BY <1>11, <2>2, <2>3, <2>4, <2>5
<1>12. ASSUME NEW m \in Messages, NEW t \in Inputs, Input(t) PROVE Moves
  BY <1>9, <1>10, <1>12 DEF Input, Simple
<1>13. ASSUME NEW m \in Messages, Exit \/ UNCHANGED vars PROVE Moves
  BY <1>10, <1>13, Sorts DEF Simple
<1>14. CASE Messages = {}
  <2>1. TypeOK' /\ UNCHANGED <<chat, failures>>
    <3>1. CASE Exit
      BY <1>14, <3>1 DEF Exit, Base, TypeOK, context, telegram
    <3>2. ASSUME NEW t \in Inputs, Input(t) PROVE TypeOK' /\ UNCHANGED <<chat, failures>>
      <4>1. InputOnly(t)
        BY <1>14, <3>2 DEF Input, RotateWaits, Rotatable, Base, TypeOK
      <4> QED BY <1>14, <4>1 DEF InputOnly, Base, TypeOK, outcome, context, telegram
    <3>3. CASE UNCHANGED vars
      BY <3>3 DEF vars, handlers, outcome, context, telegram, Base, TypeOK
    <3> QED BY <1>14, <3>1, <3>2, <3>3 DEF Next
  <2>2. Orderly
    BY <1>14 DEF Orderly, Holders, LockIsPublish
  <2> QED BY <1>14, <2>1, <2>2 DEF Moves, Delivers
<1> QED BY <1>11, <1>12, <1>13, <1>14 DEF Next

-----------------------------------------------------------------------------
(* The invariants of a stream, by the kind of the step.                    *)

LEMMA OutcomeIs ==
  ASSUME TypeOK', NEW x \in Messages, NEW from \in Nat \ {0}, Outcome(x, from)
  PROVE  LET pages == Pages(buffer'[x])
             at == sending'[x].at IN
         \/ /\ sending'[x] # None /\ sending'[x].pages = pages
            /\ at \in from..Len(pages) /\ at \in 1..Len(pages)
            /\ sending'[x].call = (IF post[x][at].msg = 0 THEN "send" ELSE "edit")
            /\ \A p \in from..(at - 1) : p \in from..Len(pages) /\ p \notin Unsent(x, pages, from)
            /\ lastPages'[x] = lastPages[x]
         \/ /\ sending'[x] = None /\ lastPages'[x] = pages
            /\ \A p \in from..Len(pages) : p \notin Unsent(x, pages, from)
         \/ sending'[x] = None /\ lastPages'[x] = lastPages[x] /\ buffer'[x] = <<>>
<1> DEFINE pages == Pages(buffer'[x])
<1>1. buffer'[x] \in Text /\ Len(pages) \in Nat
  BY PageTypes DEF TypeOK
<1>2. ASSUME NEW at \in Unsent(x, pages, from), NEW w \in Workers,
             \A k \in Unsent(x, pages, from) : at <= k,
             sending'[x] = [by |-> w, pages |-> pages, at |-> at,
                            call |-> IF post[x][at].msg = 0 THEN "send" ELSE "edit"],
             lastPages'[x] = lastPages[x]
      PROVE  /\ sending'[x] # None /\ sending'[x].pages = pages
             /\ sending'[x].at \in from..Len(pages) /\ sending'[x].at \in 1..Len(pages)
             /\ sending'[x].call = (IF post[x][sending'[x].at].msg = 0 THEN "send" ELSE "edit")
             /\ \A p \in from..(sending'[x].at - 1) :
                  p \in from..Len(pages) /\ p \notin Unsent(x, pages, from)
  <2>1. sending'[x] # None /\ at \in from..Len(pages) /\ at \in 1..Len(pages)
    BY <1>1, <1>2, SendingRecord
  <2>2. \A p \in from..(at - 1) : p \in from..Len(pages) /\ p \notin Unsent(x, pages, from)
    BY <1>1, <1>2, <2>1
  <2> QED BY <1>2, <2>1, <2>2
<1> QED BY <1>2 DEF Outcome

LEMMA SendsStep ==
  ASSUME Base, BufferRuns, Moves
  PROVE  SendsTheBuffer'
<1>0. TypeOK' /\ printed \in [Messages -> 0..MaxChunks] /\ MaxChunks \in Nat
  BY BoundsAssumption DEF Moves, Base, TypeOK
<1>1. SUFFICES ASSUME NEW x \in Messages
      PROVE  /\ Len(buffer'[x]) <= printed'[x]
             /\ sending'[x] # None =>
                  /\ sending'[x].pages = Pages(buffer'[x])
                  /\ sending'[x].at \in 1..Len(Pages(buffer'[x]))
                  /\ sending'[x].call = "edit" => post'[x][sending'[x].at].msg # 0
  BY DEF SendsTheBuffer
<1>2. /\ Len(buffer[x]) <= printed[x] /\ printed[x] \in Nat /\ printed'[x] \in Nat
      /\ buffer[x] \in Text /\ Len(buffer[x]) \in Nat
      /\ sending[x] # None =>
           /\ sending[x].pages = Pages(buffer[x]) /\ sending[x].at \in 1..Len(Pages(buffer[x]))
           /\ sending[x].call = "edit" => post[x][sending[x].at].msg # 0
  BY <1>0, LenProperties DEF Base, SendsTheBuffer, TypeOK, Text
<1>3. ASSUME Longer(x) PROVE Len(buffer'[x]) <= printed'[x]
  <2>1. Len(buffer[x]) <= Last(x)
    BY <1>3 DEF Longer, BufferRuns, Whole
  <2>2. PICK k \in 1..MaxChunks : /\ buffer'[x] = Append(buffer[x], k) /\ k = Last(x) + 1
                                  /\ printed'[x] = k
    BY <1>3 DEF Longer
  <2>3. Len(buffer'[x]) = Len(buffer[x]) + 1 /\ Last(x) \in Int
    BY <1>2, <2>2, PagesGrow DEF Last
  <2> QED BY <1>2, <2>1, <2>2, <2>3
<1>4. ASSUME NEW from \in Nat \ {0}, Outcome(x, from), sending'[x] # None,
             \A p \in from..Len(Pages(buffer'[x])) : post'[x][p] = post[x][p]
      PROVE  /\ sending'[x].pages = Pages(buffer'[x])
             /\ sending'[x].at \in 1..Len(Pages(buffer'[x]))
             /\ sending'[x].call = "edit" => post'[x][sending'[x].at].msg # 0
  BY <1>0, <1>4, OutcomeIs
<1>5. CASE Stays(x)
  BY <1>2, <1>5 DEF Stays, Same
<1>6. CASE Starts(x)
  <2>1. Len(buffer'[x]) <= printed'[x]
    BY <1>2, <1>3, <1>6 DEF Starts, Same
  <2> QED BY <1>4, <1>6, <2>1 DEF Starts
<1>7. CASE Shows(x)
  <2>1. Len(buffer'[x]) <= printed'[x]
    BY <1>2, <1>7 DEF Shows, Same
  <2>2. /\ sending[x].at + 1 \in Nat \ {0} /\ Outcome(x, sending[x].at + 1)
        /\ sending[x].at \in Nat /\ Len(Pages(buffer'[x])) \in Nat
    <3>1. buffer'[x] \in Text
      BY <1>0 DEF TypeOK
    <3> QED BY <1>7, <3>1, PageTypes, SendingIs, TypeParts DEF Shows, Base
  <2>3. \A p \in (sending[x].at + 1)..Len(Pages(buffer'[x])) : post'[x][p] = post[x][p]
    <3>1. post[x] \in [1..MaxPages -> [msg : Nat, text : Text]]
      BY DEF Base, TypeOK
    <3> QED BY <1>7, <2>2, <3>1 DEF Shows
  <2> QED BY <1>4, <2>1, <2>2, <2>3
<1>8. CASE Delays(x)
  BY <1>3, <1>8 DEF Delays
<1>9. CASE Rotates(x)
  BY <1>2, <1>9, EmptySeq DEF Rotates
<1>10. CASE Breaks(x)
  <2>1. CASE sending'[x] \in {None, sending[x]}
    BY <1>2, <1>10, <2>1 DEF Breaks
  <2>2. CASE sending[x] # None /\ sending'[x] = [sending[x] EXCEPT !.call = "again"]
    <3>1. sending[x] \in Sending
      BY <2>2, SendingIs, TypeParts DEF Base
    <3>2. /\ sending'[x].pages = sending[x].pages /\ sending'[x].at = sending[x].at
          /\ sending'[x].call # "edit"
      BY <2>2, <3>1 DEF Sending
    <3> QED BY <1>2, <1>10, <2>2, <3>2 DEF Breaks
  <2>3. CASE sending[x] # None /\ Outcome(x, sending[x].at + 1)
    <3>1. sending[x].at + 1 \in Nat \ {0}
      BY <2>3, SendingIs, TypeParts DEF Base
    <3> QED BY <1>2, <1>4, <1>10, <2>3, <3>1 DEF Breaks
  <2> QED BY <1>10, <2>1, <2>2, <2>3 DEF Breaks
<1> QED BY <1>5, <1>6, <1>7, <1>8, <1>9, <1>10 DEF Moves, Kinds

(* What stands in the buffer stays on its page.                            *)
LEMMA PagesStay ==
  ASSUME Base, NEW x \in Messages, Same(x) \/ Longer(x), NEW p \in 1..Len(Pages(buffer[x]))
  PROVE  /\ p \in 1..Len(Pages(buffer'[x])) /\ buffer'[x] \in Text
         /\ Pages(buffer[x])[p] \in Text /\ Pages(buffer'[x])[p] \in Text
         /\ Prefix(Pages(buffer[x])[p], Pages(buffer'[x])[p])
<1>1. buffer[x] \in Text
  BY DEF Base, TypeOK
<1>2. CASE Same(x)
  BY <1>1, <1>2, PageTypes, Prefixes DEF Same
<1>3. CASE Longer(x)
  <2>1. PICK k \in 1..MaxChunks : buffer'[x] = Append(buffer[x], k)
    BY <1>3 DEF Longer
  <2>2. /\ buffer'[x] \in Text /\ p <= Len(Pages(buffer'[x]))
        /\ Prefix(Pages(buffer[x])[p], Pages(buffer'[x])[p])
    BY <1>1, <2>1, PagesGrow
  <2>3. Len(Pages(buffer'[x])) \in Nat /\ Len(Pages(buffer[x])) \in Nat
    BY <1>1, <2>2, PageTypes
  <2>4. p \in 1..Len(Pages(buffer'[x]))
    BY <2>2, <2>3
  <2> QED BY <1>1, <2>2, <2>4, PageTypes
<1> QED BY <1>2, <1>3

(* A message that a stream has posted, and the page it shows.              *)
LEMMA PostedIs ==
  ASSUME Base, NEW x \in Messages, NEW p \in 1..MaxPages, post[x][p].msg # 0
  PROVE  /\ post[x][p].msg \in 1..Len(chat) /\ chat[post[x][p].msg].of = x
         /\ chat[post[x][p].msg].text \in Text /\ post[x][p].text \in Text
         /\ p \in 1..Len(Pages(buffer[x])) /\ Pages(buffer[x])[p] \in Text
         /\ Prefix(chat[post[x][p].msg].text, Pages(buffer[x])[p])
         /\ \A q \in 1..MaxPages : post[x][q].msg = post[x][p].msg => q = p
<1>1. /\ post[x][p].msg \in 1..Len(chat) /\ chat[post[x][p].msg].of = x
      /\ p <= Len(Pages(buffer[x]))
      /\ Prefix(chat[post[x][p].msg].text, Pages(buffer[x])[p])
      /\ \A q \in 1..MaxPages : post[x][q].msg = post[x][p].msg => q = p
  BY DEF Base, PostedIsShown
<1>2. buffer[x] \in Text /\ MaxPages \in Nat /\ Len(Pages(buffer[x])) \in Nat
  BY MaxPagesType, PageTypes DEF Base, TypeOK
<1>3. chat[post[x][p].msg] \in ChatMessage /\ post[x][p].text \in Text
  <2>1. chat \in Seq(ChatMessage)
    BY DEF Base, TypeOK, ChatMessage
  <2>2. post[x][p].text \in Text
    <3>1. post[x] \in [1..MaxPages -> [msg : Nat, text : Text]]
      BY DEF Base, TypeOK
    <3>2. post[x][p] \in [msg : Nat, text : Text]
      BY <3>1
    <3> QED BY <3>2
  <2> QED BY <1>1, <2>1, <2>2, ElementOfSeq
<1>4. p \in 1..Len(Pages(buffer[x]))
  BY <1>1, <1>2
<1> QED BY <1>1, <1>2, <1>3, <1>4, PageTypes DEF ChatMessage

LEMMA PostedStep ==
  ASSUME Base, Moves
  PROVE  PostedIsShown'
<1>0. TypeOK' /\ MaxPages \in Nat
  BY MaxPagesType DEF Moves
<1>1. SUFFICES ASSUME NEW x \in Messages, NEW p \in 1..MaxPages
      PROVE  /\ post'[x][p].msg = 0 => post'[x][p].text = <<>>
             /\ post'[x][p].msg # 0 =>
                  /\ post'[x][p].msg \in 1..Len(chat') /\ chat'[post'[x][p].msg].of = x
                  /\ p <= Len(Pages(buffer'[x]))
                  /\ Prefix(chat'[post'[x][p].msg].text, Pages(buffer'[x])[p])
                  /\ \A q \in 1..MaxPages : post'[x][q].msg = post'[x][p].msg => q = p
  BY DEF PostedIsShown
<1>2. post[x][p].msg = 0 => post[x][p].text = <<>>
  BY DEF Base, PostedIsShown
<1>3. /\ post \in [Messages -> [1..MaxPages -> [msg : Nat, text : Text]]] /\ Len(chat) \in Nat
      /\ \A q \in 1..MaxPages : post[x][q].msg \in Nat
  BY LenProperties DEF Base, TypeOK
<1>4. ASSUME Same(x) \/ Longer(x), post'[x] = post[x], ChatKept(x), post'[x][p].msg # 0
      PROVE  /\ post'[x][p].msg \in 1..Len(chat') /\ chat'[post'[x][p].msg].of = x
             /\ p <= Len(Pages(buffer'[x]))
             /\ Prefix(chat'[post'[x][p].msg].text, Pages(buffer'[x])[p])
             /\ \A q \in 1..MaxPages : post'[x][q].msg = post'[x][p].msg => q = p
  <2> DEFINE i == post[x][p].msg
  <2>1. /\ i \in 1..Len(chat) /\ chat[i].of = x /\ chat[i].text \in Text
        /\ p \in 1..Len(Pages(buffer[x])) /\ Prefix(chat[i].text, Pages(buffer[x])[p])
        /\ \A q \in 1..MaxPages : post[x][q].msg = i => q = p
    BY <1>4, PostedIs
  <2> HIDE DEF i
  <2>2. i \in 1..Len(chat') /\ chat'[i] = chat[i]
    BY <1>4, <2>1 DEF ChatKept
  <2>3. /\ p \in 1..Len(Pages(buffer'[x]))
        /\ Pages(buffer[x])[p] \in Text /\ Pages(buffer'[x])[p] \in Text
        /\ Prefix(Pages(buffer[x])[p], Pages(buffer'[x])[p])
    BY <1>4, <2>1, PagesStay
  <2>4. Prefix(chat[i].text, Pages(buffer'[x])[p])
    BY <2>1, <2>3, Prefixes
  <2> QED BY <1>4, <2>1, <2>2, <2>3, <2>4 DEF i
<1>5. CASE Stays(x)
  BY <1>2, <1>4, <1>5 DEF Stays
<1>6. CASE Starts(x)
  BY <1>2, <1>4, <1>6 DEF Starts
<1>7. CASE Delays(x)
  BY <1>2, <1>4, <1>7 DEF Delays
<1>8. CASE Rotates(x)
  BY <1>8 DEF Rotates, Unposted
<1>9. CASE Shows(x)
  <2> DEFINE at == sending[x].at
             d == DeliveredAt(x)
  <2>1. /\ sending[x] # None /\ chat' = Delivered(x) /\ buffer'[x] = buffer[x]
        /\ post'[x] = [post[x] EXCEPT ![at] = [msg |-> d, text |-> Request(x)]]
    BY <1>9 DEF Shows, Same
  <2>2. /\ at \in 1..Len(Pages(buffer[x])) /\ at \in 1..MaxPages
        /\ Request(x) = Pages(buffer[x])[at] /\ Request(x) \in Text
    BY <2>1, RequestIs DEF Base
  <2>3. /\ d \in 1..Len(chat') /\ chat'[d] = [of |-> x, text |-> Request(x)]
        /\ Len(chat') \in Nat /\ Len(chat) <= Len(chat')
        /\ \A i \in 1..Len(chat) : i # d => chat'[i] = chat[i]
    <3>1. /\ d \in 1..Len(chat') /\ chat'[d] = [of |-> x, text |-> Request(x)]
          /\ \A i \in 1..Len(chat) : i # d => chat'[i] = chat[i]
      BY <2>1, DeliveredIs DEF Base
    <3>2. Len(chat') = IF sending[x].call = "edit" THEN Len(chat) ELSE Len(chat) + 1
      BY <2>1, DeliveredIs DEF Base
    <3> QED BY <1>3, <3>1, <3>2
  <2>4. /\ post[x] \in [1..MaxPages -> [msg : Nat, text : Text]]
        /\ post'[x][at] = [msg |-> d, text |-> Request(x)]
        /\ \A q \in 1..MaxPages : q # at => post'[x][q] = post[x][q]
    BY <1>3, <2>1, <2>2
  <2>5. ASSUME NEW q \in 1..MaxPages, q # at, post[x][q].msg # 0 PROVE post[x][q].msg # d
    <3>1. post[x][q].msg \in 1..Len(chat)
          /\ \A r \in 1..MaxPages : post[x][r].msg = post[x][q].msg => r = q
      BY <2>5, PostedIs
    <3> QED BY <1>3, <2>2, <2>5, <3>1 DEF DeliveredAt
  <2> HIDE DEF d, at
  <2>6. CASE p = at
    <3>1. d # 0 /\ post'[x][p].msg = d
      BY <2>3, <2>4, <2>6
    <3>2. Prefix(chat'[d].text, Pages(buffer'[x])[p])
      BY <2>1, <2>2, <2>3, <2>6, Prefixes
    <3>3. \A q \in 1..MaxPages : post'[x][q].msg = d => q = p
      BY <2>4, <2>5, <2>6, <3>1
    <3> QED BY <2>1, <2>2, <2>3, <2>6, <3>1, <3>2, <3>3
  <2>7. CASE p # at
    <3>1. post'[x][p] = post[x][p]
      BY <2>4, <2>7
    <3>2. ASSUME post[x][p].msg # 0
          PROVE  /\ post[x][p].msg \in 1..Len(chat') /\ chat'[post[x][p].msg].of = x
                 /\ p <= Len(Pages(buffer[x]))
                 /\ Prefix(chat'[post[x][p].msg].text, Pages(buffer[x])[p])
                 /\ \A q \in 1..MaxPages : post'[x][q].msg = post[x][p].msg => q = p
      <4> DEFINE i == post[x][p].msg
      <4>1. /\ i \in 1..Len(chat) /\ chat[i].of = x /\ p \in 1..Len(Pages(buffer[x]))
            /\ Prefix(chat[i].text, Pages(buffer[x])[p])
            /\ \A q \in 1..MaxPages : post[x][q].msg = i => q = p
        BY <3>2, PostedIs
      <4>2. i # d
        BY <2>5, <2>7, <3>2
      <4> HIDE DEF i
      <4>3. chat'[i] = chat[i] /\ i \in 1..Len(chat')
        BY <1>3, <2>3, <4>1, <4>2
      <4>4. \A q \in 1..MaxPages : post'[x][q].msg = i => q = p
        BY <2>4, <4>1, <4>2
      <4> QED BY <4>1, <4>3, <4>4 DEF i
    <3> QED BY <1>2, <2>1, <3>1, <3>2
  <2> QED BY <2>6, <2>7
<1>10. CASE Breaks(x)
  <2>1. post'[x] = post[x] /\ buffer'[x] = buffer[x]
    BY <1>10 DEF Breaks
  <2>2. CASE chat' = chat
    BY <1>2, <2>1, <2>2 DEF Base, PostedIsShown
  <2>3. CASE sending[x] # None /\ chat' = Delivered(x)
    <3>1. ASSUME post[x][p].msg # 0
          PROVE  /\ post[x][p].msg \in 1..Len(chat') /\ chat'[post[x][p].msg].of = x
                 /\ p <= Len(Pages(buffer[x]))
                 /\ Prefix(chat'[post[x][p].msg].text, Pages(buffer[x])[p])
                 /\ \A q \in 1..MaxPages : post[x][q].msg = post[x][p].msg => q = p
      <4> DEFINE i == post[x][p].msg
      <4>1. /\ i \in 1..Len(chat) /\ chat[i].of = x /\ p \in 1..Len(Pages(buffer[x]))
            /\ Prefix(chat[i].text, Pages(buffer[x])[p])
            /\ \A q \in 1..MaxPages : post[x][q].msg = i => q = p
        BY <3>1, PostedIs
      <4>2. i \in 1..Len(chat') /\ chat'[i].of = x
        BY <2>3, <4>1, DeliveredGrows DEF Base
      <4>3. Prefix(chat'[i].text, Pages(buffer[x])[p])
        <5>1. CASE i # DeliveredAt(x)
          BY <2>3, <4>1, <5>1, DeliveredIs DEF Base
        <5>2. CASE i = DeliveredAt(x)
          <6>1. post[x][sending[x].at].msg = i /\ sending[x].at \in 1..MaxPages
            BY <1>3, <2>3, <4>1, <5>2, RequestIs DEF DeliveredAt, Base
          <6>2. p = sending[x].at /\ Request(x) = Pages(buffer[x])[p] /\ Request(x) \in Text
            BY <2>3, <4>1, <6>1, RequestIs DEF Base
          <6>3. chat'[i] = [of |-> x, text |-> Request(x)]
            BY <2>3, <5>2, DeliveredIs DEF Base
          <6> QED BY <6>2, <6>3, Prefixes
        <5> QED BY <5>1, <5>2
      <4> QED BY <4>1, <4>2, <4>3
    <3> QED BY <1>2, <2>1, <3>1
  <2> QED BY <1>10, <2>2, <2>3 DEF Breaks
<1> QED BY <1>5, <1>6, <1>7, <1>8, <1>9, <1>10 DEF Moves, Kinds

LEMMA WholeBefore ==
  ASSUME Moves, NEW x \in Messages, Whole(x)'
  PROVE  Whole(x)
BY DEF Moves, Orderly, Flow, Whole

(* The chunks that follow what the buffer held before.                     *)
LEMMA BufferStep ==
  ASSUME Base, BufferRuns, Moves
  PROVE  BufferRuns'
<1>1. SUFFICES ASSUME NEW x \in Messages, Whole(x)'
      PROVE  /\ Len(buffer'[x]) <= Last(x)'
             /\ \A j \in 1..Len(buffer'[x]) : buffer'[x][j] = Last(x)' - Len(buffer'[x]) + j
  BY DEF BufferRuns
<1>2. /\ buffer[x] \in Text /\ Len(buffer[x]) \in Nat /\ Last(x) \in Int
      /\ Len(buffer[x]) <= Last(x)
      /\ \A j \in 1..Len(buffer[x]) : buffer[x][j] = Last(x) - Len(buffer[x]) + j
  <2>1. buffer[x] \in Text /\ printed[x] \in 0..MaxChunks /\ MaxChunks \in Nat
    BY BoundsAssumption DEF Base, TypeOK
  <2> QED BY <1>1, <2>1, WholeBefore, LenProperties DEF BufferRuns, Text, Last
<1>3. CASE buffer'[x] = buffer[x] /\ Last(x)' = Last(x)
  BY <1>2, <1>3
<1>4. CASE Longer(x)
  <2>1. PICK k \in 1..MaxChunks : /\ buffer'[x] = Append(buffer[x], k) /\ k = Last(x) + 1
                                  /\ Last(x)' = k
    BY <1>4 DEF Longer
  <2>2. /\ Len(buffer'[x]) = Len(buffer[x]) + 1
        /\ \A j \in 1..Len(buffer[x]) : buffer'[x][j] = buffer[x][j]
        /\ buffer'[x][Len(buffer[x]) + 1] = k
    BY <1>2, <2>1, PagesGrow
  <2>3. ASSUME NEW j \in 1..Len(buffer'[x])
        PROVE  buffer'[x][j] = Last(x)' - Len(buffer'[x]) + j
    <3>1. CASE j \in 1..Len(buffer[x])
      BY <1>2, <2>1, <2>2, <3>1
    <3>2. CASE j = Len(buffer[x]) + 1
      BY <1>2, <2>1, <2>2, <3>2
    <3> QED BY <1>2, <2>2, <3>1, <3>2
  <2> QED BY <1>2, <2>1, <2>2, <2>3
<1>5. CASE Rotates(x)
  BY <1>2, <1>5, EmptySeq DEF Rotates
<1>6. CASE Breaks(x)
  BY <1>1, <1>3, <1>6 DEF Breaks
<1>7. Kinds(x)
  BY DEF Moves
<1> QED BY <1>3, <1>4, <1>5, <1>6, <1>7 DEF Kinds, Stays, Starts, Shows, Delays, Same

(* Once the flush has settled a stream, only input changes it.             *)
LEMMA SettledStays ==
  ASSUME Base, Moves, NEW x \in Messages, ended[x] = "result", pc[x] # "running", Settled(x)
  PROVE  Settled(x)'
<1>1. sending[x] = None /\ ~Longer(x) /\ buffer[x] \in Text
  BY DEF Settled, Longer, Base, TypeOK
<1>2. CASE Stays(x)
  BY <1>2 DEF Stays, Same, Settled
<1>3. CASE Starts(x)
  <2>1. buffer'[x] = buffer[x] /\ Outcome(x, 1)
    BY <1>1, <1>3 DEF Starts, Same
  <2>2. CASE buffer[x] = <<>>
    <3>1. Unsent(x, Pages(buffer[x]), 1) = {}
      <4>1. Len(Pages(buffer[x])) = 0
        <5>1. Len(buffer[x]) = 0 /\ Before(1) = 0 /\ Len(Pages(buffer[x])) \in Nat
          BY <1>1, <2>2, EmptySeq, PageTypes, BoundsAssumption DEF Before
        <5> QED BY <1>1, <5>1, PagesOf
      <4> QED BY <4>1 DEF Unsent
    <3> QED BY <2>1, <2>2, <3>1 DEF Outcome, Settled
  <2>3. CASE lastPages[x] = Pages(buffer[x])
    <3>1. Unsent(x, Pages(buffer[x]), 1) = {}
      BY <1>1, <2>3, PageTypes DEF Unsent
    <3> QED BY <2>1, <3>1 DEF Outcome, Settled
  <2> QED BY <2>2, <2>3 DEF Settled
<1>4. CASE Rotates(x)
  BY <1>4 DEF Rotates, Settled
<1>5. ~Shows(x) /\ ~Delays(x) /\ ~Breaks(x)
  BY <1>1 DEF Shows, Delays, Breaks
<1> QED BY <1>2, <1>3, <1>4, <1>5 DEF Moves, Kinds

LEMMA FlushStep ==
  ASSUME Base, FlushSettles, Moves
  PROVE  FlushSettles'
<1>1. SUFFICES ASSUME NEW x \in Messages, ended'[x] = "result", pc'[x] # "running"
      PROVE  Settled(x)'
  BY DEF FlushSettles
<1>2. CASE ended[x] = "result" /\ pc[x] # "running"
  BY <1>2, SettledStays DEF FlushSettles
<1>3. CASE ~(ended[x] = "result" /\ pc[x] # "running")
  BY <1>1, <1>3 DEF Moves, Orderly, Flow
<1> QED BY <1>2, <1>3

(* A page that is not sent has been sent before.                           *)
LEMMA SentBefore ==
  ASSUME Base, TypeOK', SendsTheBuffer', PostedIsShown', NEW x \in Messages, PostsAreKnown(x),
         NEW from \in Nat \ {0}, NEW p \in from..Len(Pages(buffer'[x])),
         p \notin Unsent(x, Pages(buffer'[x]), from), post'[x][p] = post[x][p],
         post[x][p].msg # 0 => chat'[post[x][p].msg] = chat[post[x][p].msg]
  PROVE  /\ p \in 1..MaxPages /\ post[x][p].msg # 0
         /\ post[x][p].text = Pages(buffer'[x])[p]
<1> DEFINE pages == Pages(buffer'[x])
<1>1. /\ buffer'[x] \in Text /\ Len(pages) <= MaxPages /\ MaxPages \in Nat /\ Len(pages) \in Nat
  <2>1. buffer'[x] \in Text /\ printed'[x] \in 0..MaxChunks /\ MaxChunks \in Nat
    BY BoundsAssumption DEF TypeOK
  <2>2. Len(buffer'[x]) <= MaxChunks
    BY <2>1, LenProperties DEF SendsTheBuffer, Text
  <2> QED BY <2>1, <2>2, PagesFit, PageTypes, MaxPagesType
<1>2. p \in 1..Len(pages) /\ p \in 1..MaxPages
  BY <1>1
<1>3. pages[p] \in Text /\ pages[p] # <<>>
  BY <1>1, <1>2, PageTypes
<1> HIDE DEF pages
<1>4. CASE post[x][p].text = pages[p]
  BY <1>2, <1>3, <1>4 DEF Base, PostedIsShown, pages
<1>5. CASE p \in 1..Len(lastPages[x]) /\ lastPages[x][p] = pages[p]
  <2>1. post[x][p].msg # 0 /\ Prefix(pages[p], post[x][p].text)
        /\ chat[post[x][p].msg].text = post[x][p].text
    BY <1>2, <1>5 DEF PostsAreKnown
  <2>2. Prefix(post[x][p].text, pages[p])
    BY <1>2, <2>1 DEF PostedIsShown, pages
  <2>3. post[x][p].text \in Text
    BY <1>2, <2>1, PostedIs
  <2> QED BY <1>2, <1>3, <2>1, <2>2, <2>3, Prefixes DEF pages
<1>6. post[x][p].text = pages[p] \/ (p <= Len(lastPages[x]) /\ lastPages[x][p] = pages[p])
  BY DEF Unsent, pages
<1>7. Len(lastPages[x]) \in Nat
  BY LenProperties DEF Base, TypeOK
<1> QED BY <1>2, <1>4, <1>5, <1>6, <1>7

LEMMA ChatKeptPosts ==
  ASSUME Base, NEW x \in Messages, ChatKept(x), NEW p \in 1..MaxPages, post[x][p].msg # 0
  PROVE  chat'[post[x][p].msg] = chat[post[x][p].msg]
<1>1. post[x][p].msg \in 1..Len(chat) /\ chat[post[x][p].msg].of = x
  BY PostedIs
<1> QED BY <1>1 DEF ChatKept

(* A publish is known to have sent the pages before the one under way.     *)
LEMMA StartsKnown ==
  ASSUME Base, TypeOK', SendsTheBuffer', PostedIsShown', NEW x \in Messages, PostsAreKnown(x),
         Starts(x)
  PROVE  PostsAreKnown(x)'
<1> DEFINE pages == Pages(buffer'[x])
           at == sending'[x].at
<1>1. post'[x] = post[x] /\ ChatKept(x) /\ Outcome(x, 1)
  BY DEF Starts
<1>2. ASSUME NEW p \in 1..Len(pages), p \notin Unsent(x, pages, 1)
      PROVE  p \in 1..MaxPages /\ post[x][p].msg # 0 /\ post[x][p].text = pages[p]
  <2>1. p \in 1..MaxPages
    <3>1. buffer'[x] \in Text /\ printed'[x] \in 0..MaxChunks /\ MaxChunks \in Nat
      BY BoundsAssumption DEF TypeOK
    <3>2. Len(buffer'[x]) <= MaxChunks
      BY <3>1, LenProperties DEF SendsTheBuffer, Text
    <3> QED BY <3>1, <3>2, PagesFit, PageTypes, MaxPagesType
  <2>2. post[x][p].msg # 0 => chat'[post[x][p].msg] = chat[post[x][p].msg]
    BY <1>1, <2>1, ChatKeptPosts
  <2>3. post'[x][p] = post[x][p] /\ 1 \in Nat \ {0}
    BY <1>1
  <2>4. p \in 1..Len(Pages(buffer'[x])) /\ p \notin Unsent(x, Pages(buffer'[x]), 1)
    BY <1>2
  <2> HIDE DEF pages
  <2>5. post[x][p].msg # 0 /\ post[x][p].text = Pages(buffer'[x])[p]
    BY <2>2, <2>3, <2>4, SentBefore
  <2> QED BY <2>1, <2>5 DEF pages
<1>3. \A p \in 1..MaxPages : post'[x][p].msg # 0 =>
         chat'[post'[x][p].msg].text = post'[x][p].text
  BY <1>1, ChatKeptPosts DEF PostsAreKnown
<1>4. \A p, q \in 1..MaxPages : p < q /\ post'[x][q].msg # 0 =>
         post'[x][p].msg # 0 /\ post'[x][p].msg < post'[x][q].msg
  BY <1>1 DEF PostsAreKnown
<1>5. \/ /\ sending'[x] # None /\ sending'[x].pages = pages /\ lastPages'[x] = lastPages[x]
         /\ sending'[x].call = (IF post[x][at].msg = 0 THEN "send" ELSE "edit")
         /\ \A p \in 1..(at - 1) : p \in 1..Len(pages) /\ p \notin Unsent(x, pages, 1)
      \/ /\ sending'[x] = None /\ lastPages'[x] = pages
         /\ \A p \in 1..Len(pages) : p \notin Unsent(x, pages, 1)
      \/ sending'[x] = None /\ lastPages'[x] = lastPages[x]
  BY <1>1, OutcomeIs
<1>6. \A p \in 1..Len(lastPages'[x]) :
         p <= MaxPages /\ post'[x][p].msg # 0 /\ Prefix(lastPages'[x][p], post'[x][p].text)
  <2>1. CASE lastPages'[x] = lastPages[x]
    BY <1>1, <2>1 DEF PostsAreKnown
  <2>2. CASE lastPages'[x] = pages /\ \A p \in 1..Len(pages) : p \notin Unsent(x, pages, 1)
    <3>1. SUFFICES ASSUME NEW p \in 1..Len(pages)
          PROVE  p <= MaxPages /\ post[x][p].msg # 0 /\ Prefix(pages[p], post[x][p].text)
      BY <1>1, <2>2
    <3>2. p \in 1..MaxPages /\ post[x][p].msg # 0 /\ post[x][p].text = pages[p]
      BY <1>2, <2>2
    <3>3. pages[p] \in Text
      BY PageTypes DEF TypeOK
    <3>4. Prefix(pages[p], pages[p])
      BY <3>3, Prefixes
    <3> QED BY <3>2, <3>4
  <2> QED BY <1>5, <2>1, <2>2
<1>7. sending'[x] # None =>
        /\ \A p \in 1..(at - 1) : post'[x][p].text = sending'[x].pages[p]
        /\ sending'[x].call = (IF post'[x][at].msg = 0 THEN "send" ELSE "edit")
  BY <1>1, <1>2, <1>5
<1> QED BY <1>3, <1>4, <1>6, <1>7 DEF PostsAreKnown

(* What an answered request changes, as long as none raised.               *)
LEMMA ShowsIs ==
  ASSUME Base, NEW x \in Messages, Shows(x)
  PROVE  LET at == sending[x].at
             d  == DeliveredAt(x) IN
         /\ at \in 1..Len(Pages(buffer[x])) /\ at \in 1..MaxPages
         /\ Request(x) = Pages(buffer[x])[at] /\ Request(x) \in Text /\ Request(x) # <<>>
         /\ Len(chat) \in Nat /\ d \in Nat /\ d # 0
         /\ d = IF sending[x].call = "edit" THEN post[x][at].msg ELSE Len(chat) + 1
         /\ chat'[d] = [of |-> x, text |-> Request(x)]
         /\ \A i \in 1..Len(chat) : i # d => chat'[i] = chat[i]
         /\ \A i \in 1..Len(chat') : i # d => i \in 1..Len(chat) /\ chat'[i] = chat[i]
         /\ post'[x][at] = [msg |-> d, text |-> Request(x)]
         /\ \A q \in 1..MaxPages : q # at => post'[x][q] = post[x][q]
         /\ \A q \in 1..MaxPages : q # at /\ post[x][q].msg # 0 =>
              post[x][q].msg # d /\ post[x][q].msg \in 1..Len(chat)
         /\ \A q \in 1..MaxPages : post[x][q].msg \in Nat
<1> DEFINE at == sending[x].at
           d  == DeliveredAt(x)
<1>1. /\ sending[x] # None /\ chat' = Delivered(x)
      /\ post'[x] = [post[x] EXCEPT ![at] = [msg |-> d, text |-> Request(x)]]
  BY DEF Shows
<1>2. /\ at \in 1..Len(Pages(buffer[x])) /\ at \in 1..MaxPages
      /\ Request(x) = Pages(buffer[x])[at] /\ Request(x) \in Text /\ Request(x) # <<>>
  BY <1>1, RequestIs DEF Base
<1>3. /\ d \in 1..Len(chat') /\ chat'[d] = [of |-> x, text |-> Request(x)] /\ Len(chat) \in Nat
      /\ \A i \in 1..Len(chat) : i # d => chat'[i] = chat[i]
  BY <1>1, DeliveredIs DEF Base
<1>4. Len(chat') = IF sending[x].call = "edit" THEN Len(chat) ELSE Len(chat) + 1
  BY <1>1, DeliveredIs DEF Base
<1>5. d = IF sending[x].call = "edit" THEN post[x][at].msg ELSE Len(chat) + 1
  BY DEF DeliveredAt
<1>6. post \in [Messages -> [1..MaxPages -> [msg : Nat, text : Text]]] /\ MaxPages \in Nat
  BY MaxPagesType DEF Base, TypeOK
<1> HIDE DEF at, d
<1>7. /\ post'[x][at] = [msg |-> d, text |-> Request(x)]
      /\ \A q \in 1..MaxPages : q # at => post'[x][q] = post[x][q]
      /\ \A q \in 1..MaxPages : post[x][q].msg \in Nat
  BY <1>1, <1>2, <1>6
<1>8. ASSUME NEW q \in 1..MaxPages, q # at, post[x][q].msg # 0
      PROVE  post[x][q].msg # d /\ post[x][q].msg \in 1..Len(chat)
  <2>1. /\ post[x][q].msg \in 1..Len(chat)
        /\ \A r \in 1..MaxPages : post[x][r].msg = post[x][q].msg => r = q
    BY <1>8, PostedIs
  <2> QED BY <1>2, <1>3, <1>5, <1>8, <2>1
<1>9. \A i \in 1..Len(chat') : i # d => i \in 1..Len(chat) /\ chat'[i] = chat[i]
  BY <1>3, <1>4, <1>5
<1>10. d \in Nat /\ d # 0
  BY <1>3, <1>4
<1> QED BY <1>2, <1>3, <1>5, <1>7, <1>8, <1>9, <1>10 DEF at, d

LEMMA ShowsKnown ==
  ASSUME Base, TypeOK', SendsTheBuffer', PostedIsShown', NEW x \in Messages, PostsAreKnown(x),
         Shows(x)
  PROVE  PostsAreKnown(x)'
<1> DEFINE pages == Pages(buffer'[x])
           at == sending[x].at
           d  == DeliveredAt(x)
<1>1. /\ sending[x] # None /\ buffer'[x] = buffer[x] /\ Outcome(x, at + 1)
      /\ sending[x].pages = pages
  BY DEF Shows, Same, Base, SendsTheBuffer
<1>2. /\ at \in 1..Len(pages) /\ at \in 1..MaxPages /\ Len(pages) \in Nat /\ MaxPages \in Nat
      /\ Request(x) = pages[at] /\ Request(x) \in Text /\ Request(x) # <<>>
      /\ \A p \in 1..Len(pages) : pages[p] \in Text /\ pages[p] # <<>>
  <2>1. buffer[x] \in Text
    BY DEF Base, TypeOK
  <2> QED BY <1>1, <2>1, ShowsIs, PageTypes, MaxPagesType
<1>3. /\ Len(chat) \in Nat /\ d \in Nat /\ d # 0
      /\ d = IF sending[x].call = "edit" THEN post[x][at].msg ELSE Len(chat) + 1
      /\ chat'[d].text = Request(x)
      /\ post'[x][at] = [msg |-> d, text |-> Request(x)]
  <2>1. chat'[d] = [of |-> x, text |-> Request(x)]
    BY ShowsIs
  <2>2. /\ Len(chat) \in Nat /\ d \in Nat /\ d # 0
        /\ d = IF sending[x].call = "edit" THEN post[x][at].msg ELSE Len(chat) + 1
        /\ post'[x][at] = [msg |-> d, text |-> Request(x)]
    BY ShowsIs
  <2> HIDE DEF at, d
  <2> QED BY <2>1, <2>2
<1>4. /\ \A q \in 1..MaxPages : q # at => post'[x][q] = post[x][q]
      /\ \A q \in 1..MaxPages : q # at /\ post[x][q].msg # 0 =>
              post[x][q].msg \in 1..Len(chat) /\ chat'[post[x][q].msg] = chat[post[x][q].msg]
      /\ \A q \in 1..MaxPages : post[x][q].msg \in Nat
  <2>1. /\ \A q \in 1..MaxPages : q # at => post'[x][q] = post[x][q]
        /\ \A q \in 1..MaxPages : q # at /\ post[x][q].msg # 0 =>
              post[x][q].msg # d /\ post[x][q].msg \in 1..Len(chat)
        /\ \A q \in 1..MaxPages : post[x][q].msg \in Nat
    BY ShowsIs
  <2>2. \A i \in 1..Len(chat) : i # d => chat'[i] = chat[i]
    BY ShowsIs
  <2> HIDE DEF at, d
  <2> QED BY <2>1, <2>2
<1>5. /\ \A p \in 1..(at - 1) : post[x][p].text = pages[p]
      /\ sending[x].call = (IF post[x][at].msg = 0 THEN "send" ELSE "edit")
  BY <1>1 DEF PostsAreKnown
<1>6. at + 1 \in Nat \ {0} /\ at \in Nat
  BY <1>2
<1> HIDE DEF pages, at, d
<1>7. ASSUME NEW p \in 1..Len(pages), p <= at \/ p \notin Unsent(x, pages, at + 1)
      PROVE  p \in 1..MaxPages /\ post'[x][p].text = pages[p] /\ post'[x][p].msg # 0
  <2>1. CASE p = at
    BY <1>2, <1>3, <2>1
  <2>2. CASE p < at
    <3>1. p \in 1..MaxPages /\ p \in 1..(at - 1) /\ p # at
      BY <1>2, <1>6, <2>2
    <3>2. post[x][p].text = pages[p] /\ pages[p] # <<>> /\ post'[x][p] = post[x][p]
      BY <1>2, <1>4, <1>5, <3>1
    <3> QED BY <3>1, <3>2 DEF Base, PostedIsShown
  <2>3. CASE p > at
    <3>1. p \in (at + 1)..Len(pages) /\ p \notin Unsent(x, pages, at + 1)
      BY <1>2, <1>6, <1>7, <2>3
    <3>2. p \in 1..MaxPages
      <4>1. buffer'[x] \in Text /\ printed'[x] \in 0..MaxChunks /\ MaxChunks \in Nat
        BY BoundsAssumption DEF TypeOK
      <4>2. Len(buffer'[x]) <= MaxChunks
        BY <4>1, LenProperties DEF SendsTheBuffer, Text
      <4>3. Len(pages) <= MaxPages
        BY <4>1, <4>2, PagesFit DEF pages
      <4> QED BY <1>2, <3>1, <4>3
    <3>3. post'[x][p] = post[x][p]
          /\ (post[x][p].msg # 0 => chat'[post[x][p].msg] = chat[post[x][p].msg])
      BY <1>4, <1>6, <2>3, <3>2
    <3>4. p \in (at + 1)..Len(Pages(buffer'[x])) /\ p \notin Unsent(x, Pages(buffer'[x]), at + 1)
      BY <3>1 DEF pages
    <3>5. post[x][p].msg # 0 /\ post[x][p].text = Pages(buffer'[x])[p]
      BY <1>6, <3>3, <3>4, SentBefore
    <3> QED BY <3>2, <3>3, <3>5 DEF pages
  <2> QED BY <1>2, <1>6, <2>1, <2>2, <2>3
<1>8. ASSUME NEW p \in 1..MaxPages, post'[x][p].msg # 0
      PROVE  chat'[post'[x][p].msg].text = post'[x][p].text
  <2>1. CASE p = at
    BY <1>3, <2>1
  <2>2. CASE p # at
    BY <1>4, <1>8, <2>2 DEF PostsAreKnown
  <2> QED BY <2>1, <2>2
<1>9. ASSUME NEW p \in 1..MaxPages, NEW q \in 1..MaxPages, p < q, post'[x][q].msg # 0
      PROVE  post'[x][p].msg # 0 /\ post'[x][p].msg < post'[x][q].msg
  <2>1. CASE q # at /\ p # at
    BY <1>4, <1>9, <2>1 DEF PostsAreKnown
  <2>2. CASE q # at /\ p = at
    <3>1. post[x][q].msg # 0 /\ post'[x][q].msg = post[x][q].msg
      BY <1>4, <1>9, <2>2
    <3>2. post[x][at].msg # 0 /\ post[x][at].msg < post[x][q].msg
      BY <1>9, <2>2, <3>1 DEF PostsAreKnown
    <3>3. d = post[x][at].msg
      BY <1>3, <1>5, <3>2
    <3> QED BY <1>3, <2>2, <3>1, <3>2, <3>3
  <2>3. CASE q = at
    <3>1. p \in 1..Len(pages) /\ p <= at /\ p # at /\ post'[x][p] = post[x][p]
      BY <1>2, <1>4, <1>9, <2>3
    <3>2. post[x][p].msg # 0
      BY <1>7, <3>1
    <3>3. post[x][p].msg \in 1..Len(chat)
      BY <1>4, <3>1, <3>2
    <3>4. CASE sending[x].call = "edit"
      <4>1. d = post[x][at].msg
        BY <1>3, <3>4
      <4>2. post[x][p].msg < post[x][at].msg
        BY <1>3, <1>9, <2>3, <4>1 DEF PostsAreKnown
      <4> QED BY <1>3, <2>3, <3>1, <3>2, <4>1, <4>2
    <3>5. CASE sending[x].call # "edit"
      BY <1>3, <2>3, <3>1, <3>2, <3>3, <3>5
    <3> QED BY <3>4, <3>5
  <2> QED BY <2>1, <2>2, <2>3
<1>10. \/ /\ sending'[x] # None /\ sending'[x].pages = pages /\ lastPages'[x] = lastPages[x]
          /\ sending'[x].at \in (at + 1)..Len(pages)
          /\ sending'[x].call = (IF post[x][sending'[x].at].msg = 0 THEN "send" ELSE "edit")
          /\ \A p \in (at + 1)..(sending'[x].at - 1) :
               p \in (at + 1)..Len(pages) /\ p \notin Unsent(x, pages, at + 1)
       \/ /\ sending'[x] = None /\ lastPages'[x] = pages
          /\ \A p \in (at + 1)..Len(pages) : p \notin Unsent(x, pages, at + 1)
       \/ sending'[x] = None /\ lastPages'[x] = lastPages[x]
  BY <1>1, <1>6, OutcomeIs DEF pages
<1>11. ASSUME NEW p \in 1..Len(lastPages'[x])
       PROVE  p <= MaxPages /\ post'[x][p].msg # 0 /\ Prefix(lastPages'[x][p], post'[x][p].text)
  <2>1. CASE lastPages'[x] = lastPages[x]
    <3>1. /\ p \in 1..MaxPages /\ post[x][p].msg # 0 /\ Prefix(lastPages[x][p], post[x][p].text)
          /\ lastPages[x][p] \in Text
      <4>1. lastPages[x] \in Seq(Text) /\ Len(lastPages[x]) \in Nat
        BY LenProperties DEF Base, TypeOK
      <4>2. p \in 1..Len(lastPages[x]) /\ p \in Nat /\ 1 <= p
        BY <2>1, <4>1
      <4> QED BY <1>2, <4>1, <4>2, ElementOfSeq DEF PostsAreKnown
    <3>2. CASE p # at
      BY <1>4, <2>1, <3>1, <3>2
    <3>3. CASE p = at
      <4>1. /\ Prefix(chat[post[x][at].msg].text, pages[at]) /\ post[x][at].text \in Text
            /\ chat[post[x][at].msg].text = post[x][at].text
        BY <1>1, <3>1, <3>3, PostedIs DEF PostsAreKnown, pages
      <4>2. Prefix(lastPages[x][at], pages[at])
        BY <1>2, <3>1, <3>3, <4>1, Prefixes
      <4> QED BY <1>2, <1>3, <2>1, <3>1, <3>3, <4>2
    <3> QED BY <3>2, <3>3
  <2>2. CASE lastPages'[x] = pages
             /\ \A r \in (at + 1)..Len(pages) : r \notin Unsent(x, pages, at + 1)
    <3>1. p \in 1..Len(pages) /\ (p <= at \/ p \notin Unsent(x, pages, at + 1))
      BY <1>2, <1>6, <2>2
    <3>2. p \in 1..MaxPages /\ post'[x][p].text = pages[p] /\ post'[x][p].msg # 0
      BY <1>7, <3>1
    <3>3. Prefix(pages[p], pages[p])
      BY <1>2, <3>1, Prefixes
    <3> QED BY <1>2, <2>2, <3>2, <3>3
  <2> QED BY <1>10, <2>1, <2>2
<1>12. ASSUME sending'[x] # None
       PROVE  /\ \A p \in 1..(sending'[x].at - 1) : post'[x][p].text = sending'[x].pages[p]
              /\ sending'[x].call = (IF post'[x][sending'[x].at].msg = 0 THEN "send" ELSE "edit")
  <2> DEFINE next == sending'[x].at
  <2>1. /\ sending'[x].pages = pages /\ next \in (at + 1)..Len(pages)
        /\ sending'[x].call = (IF post[x][next].msg = 0 THEN "send" ELSE "edit")
        /\ \A p \in (at + 1)..(next - 1) :
             p \in (at + 1)..Len(pages) /\ p \notin Unsent(x, pages, at + 1)
    BY <1>10, <1>12
  <2> HIDE DEF next
  <2>2. ASSUME NEW p \in 1..(next - 1) PROVE post'[x][p].text = pages[p]
    <3>1. p \in 1..Len(pages) /\ (p <= at \/ p \notin Unsent(x, pages, at + 1))
      BY <1>2, <1>6, <2>1
    <3> QED BY <1>7, <3>1
  <2>3. post'[x][next] = post[x][next]
    <3>1. post[x] \in [1..MaxPages -> [msg : Nat, text : Text]]
      BY DEF Base, TypeOK
    <3>2. next # at
      BY <1>2, <1>6, <2>1
    <3> QED BY <3>1, <3>2 DEF Shows, at
  <2> QED BY <2>1, <2>2, <2>3 DEF next
<1> QED BY <1>8, <1>9, <1>11, <1>12 DEF PostsAreKnown

LEMMA PostsStep ==
  ASSUME Base, PostedInOrder, Moves, SendsTheBuffer', PostedIsShown'
  PROVE  PostedInOrder'
<1>1. SUFFICES ASSUME NEW x \in Messages, failures' = 0, Whole(x)' PROVE PostsAreKnown(x)'
  BY DEF PostedInOrder
<1>2. TypeOK' /\ failures = 0 /\ Whole(x) /\ PostsAreKnown(x)
  BY <1>1, WholeBefore DEF Moves, PostedInOrder
<1>3. CASE Starts(x)
  BY <1>2, <1>3, StartsKnown
<1>4. CASE Shows(x)
  BY <1>2, <1>4, ShowsKnown
<1>5. CASE Stays(x) \/ Delays(x)
  <2>1. /\ post'[x] = post[x] /\ lastPages'[x] = lastPages[x] /\ ChatKept(x)
        /\ sending'[x] \in {sending[x], None}
    BY <1>5 DEF Stays, Delays
  <2>2. \A p \in 1..MaxPages : post[x][p].msg # 0 =>
          chat'[post[x][p].msg].text = post[x][p].text
    BY <1>2, <2>1, ChatKeptPosts DEF PostsAreKnown
  <2> QED BY <1>2, <2>1, <2>2 DEF PostsAreKnown
<1>6. CASE Rotates(x)
  <2>1. /\ \A p \in 1..MaxPages : post'[x][p].msg = 0
        /\ lastPages'[x] = <<>> /\ Len(lastPages'[x]) = 0 /\ sending'[x] = None
    BY <1>6, EmptySeq DEF Rotates, Unposted
  <2> QED BY <2>1 DEF PostsAreKnown
<1>7. ~Breaks(x)
  BY <1>1 DEF Breaks
<1> QED BY <1>3, <1>4, <1>5, <1>6, <1>7 DEF Moves, Kinds

(* The chunks of a text that begins page p of a buffer.                    *)
LEMMA ChunkOnPage ==
  ASSUME NEW b \in Text, NEW last \in Int, \A j \in 1..Len(b) : b[j] = last - Len(b) + j,
         NEW p \in 1..Len(Pages(b)), NEW s \in Text, Prefix(s, Pages(b)[p]), NEW y \in 1..Len(s)
  PROVE  /\ y \in 1..Len(Pages(b)[p]) /\ Before(p) + y \in 1..Len(b) /\ Before(p) + y \in Nat
         /\ s[y] = last - Len(b) + (Before(p) + y) /\ Len(b) \in Nat
         /\ s[y] <= last /\ s[y] > last - Len(b)
<1>1. /\ Len(b) \in Nat /\ Len(s) \in Nat /\ Len(Pages(b)[p]) \in Nat
  BY PageTypes, LenProperties DEF Text
<1>2. y \in 1..Len(Pages(b)[p]) /\ s[y] = Pages(b)[p][y]
  BY <1>1 DEF Prefix
<1>3. Before(p) + y \in 1..Len(b) /\ s[y] = b[Before(p) + y]
  BY <1>2, PagesInOrder
<1> DEFINE n == Before(p) + y
<1>4. n \in 1..Len(b) /\ s[y] = last - Len(b) + n
  BY <1>3
<1> HIDE DEF n
<1>5. n \in Nat /\ s[y] <= last /\ s[y] > last - Len(b)
  BY <1>1, <1>4
<1> QED BY <1>1, <1>2, <1>4, <1>5 DEF n

LEMMA ChunksInOrder ==
  ASSUME NEW b \in Text, NEW last \in Int, \A j \in 1..Len(b) : b[j] = last - Len(b) + j,
         NEW p \in 1..Len(Pages(b)), NEW s \in Text, Prefix(s, Pages(b)[p]), NEW y \in 1..Len(s),
         NEW q \in 1..Len(Pages(b)), NEW t \in Text, Prefix(t, Pages(b)[q]), NEW z \in 1..Len(t),
         p < q
  PROVE  s[y] < t[z]
<1> DEFINE n == Before(p) + y
           o == Before(q) + z
<1>1. /\ y \in 1..Len(Pages(b)[p]) /\ s[y] = last - Len(b) + n /\ n \in Nat /\ Len(b) \in Nat
  BY ChunkOnPage
<1>2. /\ z \in 1..Len(Pages(b)[q]) /\ t[z] = last - Len(b) + o /\ o \in Nat
  BY ChunkOnPage
<1>3. n < o
  BY <1>1, <1>2, PagesInOrder
<1> HIDE DEF n, o
<1> QED BY <1>1, <1>2, <1>3

LEMMA OlderStep ==
  ASSUME Base, BufferRuns, PostedInOrder, OlderIsAbove, Moves
  PROVE  OlderIsAbove'
<1>1. SUFFICES ASSUME NEW x \in Messages, failures' = 0, Whole(x)', NEW i \in 1..Len(chat'),
                      chat'[i].of = x, ~Posted(x, i)'
      PROVE  /\ \A k \in Chunks(i)' : k <= Last(x)' - Len(buffer'[x])
             /\ \A p \in 1..MaxPages : post'[x][p].msg # 0 => i < post'[x][p].msg
  BY DEF OlderIsAbove
<1>2. TypeOK' /\ failures = 0 /\ Whole(x) /\ PostsAreKnown(x)
  BY <1>1, WholeBefore DEF Moves, PostedInOrder
<1>3. /\ Last(x) \in Int /\ buffer[x] \in Text /\ Len(buffer[x]) \in Nat
      /\ \A j \in 1..Len(buffer[x]) : buffer[x][j] = Last(x) - Len(buffer[x]) + j
  <2>1. buffer[x] \in Text /\ printed[x] \in 0..MaxChunks /\ MaxChunks \in Nat
    BY BoundsAssumption DEF Base, TypeOK
  <2> QED BY <1>2, <2>1, LenProperties DEF BufferRuns, Text, Last
<1>4. ASSUME i \in 1..Len(chat), chat'[i] = chat[i], ~Posted(x, i)
      PROVE  /\ \A k \in Chunks(i)' : k <= Last(x) - Len(buffer[x])
             /\ \A p \in 1..MaxPages : post[x][p].msg # 0 => i < post[x][p].msg
  <2>1. chat[i].of = x /\ Chunks(i)' = Chunks(i)
    BY <1>1, <1>4 DEF Chunks
  <2> QED BY <1>2, <1>4, <2>1 DEF OlderIsAbove
<1>5. ASSUME ChatKept(x) PROVE i \in 1..Len(chat) /\ chat'[i] = chat[i]
  BY <1>1, <1>5 DEF ChatKept
<1>6. Last(x)' - Len(buffer'[x]) = Last(x) - Len(buffer[x]) \/ Rotates(x)
  <2>1. CASE Same(x)
    BY <2>1 DEF Same
  <2>2. CASE Longer(x)
    <3>1. PICK k \in 1..MaxChunks : /\ buffer'[x] = Append(buffer[x], k) /\ k = Last(x) + 1
                                    /\ Last(x)' = k
      BY <2>2 DEF Longer
    <3>2. Len(buffer'[x]) = Len(buffer[x]) + 1
      BY <1>3, <3>1, PagesGrow
    <3>3. Last(x)' = Last(x) + 1
      BY <3>1
    <3>4. (Last(x) + 1) - (Len(buffer[x]) + 1) = Last(x) - Len(buffer[x])
      BY <1>3
    <3> QED BY <3>2, <3>3, <3>4
  <2> QED BY <1>1, <2>1, <2>2 DEF Moves, Kinds, Stays, Starts, Shows, Delays, Breaks
<1>7. CASE Stays(x) \/ Starts(x) \/ Delays(x)
  <2>1. ChatKept(x) /\ post'[x] = post[x]
    BY <1>7 DEF Stays, Starts, Delays
  <2>2. ~Posted(x, i)
    BY <1>1, <2>1 DEF Posted
  <2>3. Last(x)' - Len(buffer'[x]) = Last(x) - Len(buffer[x])
    BY <1>3, <1>6, <1>7, EmptySeq DEF Stays, Same, Starts, Delays, Rotates, Longer
  <2> QED BY <1>4, <1>5, <2>1, <2>2, <2>3
<1>8. CASE Shows(x)
  <2> DEFINE at == sending[x].at
             d  == DeliveredAt(x)
  <2>1. /\ at \in 1..MaxPages /\ Len(chat) \in Nat /\ d \in Nat /\ d # 0
        /\ d = IF sending[x].call = "edit" THEN post[x][at].msg ELSE Len(chat) + 1
        /\ \A j \in 1..Len(chat') : j # d => j \in 1..Len(chat) /\ chat'[j] = chat[j]
        /\ post'[x][at] = [msg |-> d, text |-> Request(x)]
        /\ \A q \in 1..MaxPages : q # at => post'[x][q] = post[x][q]
    BY <1>8, ShowsIs
  <2>2. sending[x].call = (IF post[x][at].msg = 0 THEN "send" ELSE "edit")
    BY <1>2, <1>8 DEF Shows, PostsAreKnown
  <2>3. Last(x)' - Len(buffer'[x]) = Last(x) - Len(buffer[x])
    BY <1>8 DEF Shows, Same
  <2> HIDE DEF at, d
  <2>4. i # d
    BY <1>1, <2>1 DEF Posted
  <2>5. i \in 1..Len(chat) /\ chat'[i] = chat[i]
    BY <1>1, <2>1, <2>4
  <2>6. ~Posted(x, i)
    <3>1. SUFFICES ASSUME NEW p \in 1..MaxPages, post[x][p].msg = i PROVE FALSE
      BY DEF Posted
    <3>2. CASE p # at
      BY <1>1, <2>1, <3>1, <3>2 DEF Posted
    <3>3. CASE p = at
      BY <2>1, <2>2, <2>4, <2>5, <3>1, <3>3
    <3> QED BY <3>2, <3>3
  <2>7. \A p \in 1..MaxPages : post'[x][p].msg # 0 => i < post'[x][p].msg
    <3>1. SUFFICES ASSUME NEW p \in 1..MaxPages, post'[x][p].msg # 0 PROVE i < post'[x][p].msg
      OBVIOUS
    <3>2. CASE p # at
      BY <1>4, <2>1, <2>5, <2>6, <3>1, <3>2
    <3>3. CASE p = at
      <4>1. post'[x][p].msg = d
        BY <2>1, <3>3
      <4>2. CASE sending[x].call = "edit"
        BY <1>4, <2>1, <2>5, <2>6, <4>1, <4>2
      <4>3. CASE sending[x].call # "edit"
        BY <2>1, <2>5, <4>1, <4>3
      <4> QED BY <4>2, <4>3
    <3> QED BY <3>2, <3>3
  <2> QED BY <1>4, <2>3, <2>5, <2>6, <2>7
<1>9. CASE Rotates(x)
  <2>1. /\ \A p \in 1..MaxPages : post'[x][p].msg = 0
        /\ Last(x)' - Len(buffer'[x]) = Last(x) /\ chat' = chat
    BY <1>3, <1>9, EmptySeq DEF Rotates, Unposted
  <2>2. ASSUME NEW k \in Chunks(i)' PROVE k <= Last(x)
    <3>1. CASE ~Posted(x, i)
      <4>1. k <= Last(x) - Len(buffer[x]) /\ k \in Int
        <5>1. i \in 1..Len(chat) /\ chat'[i] = chat[i]
          BY <1>1, <2>1
        <5>2. k \in Int
          <6>1. chat' \in Seq(ChatMessage)
            BY <1>2 DEF TypeOK, ChatMessage
          <6>2. chat'[i] \in ChatMessage
            BY <1>1, <6>1, ElementOfSeq
          <6>3. chat'[i].text \in Seq(1..MaxChunks)
            BY <6>2 DEF ChatMessage, Text
          <6>4. \A j \in 1..Len(chat'[i].text) : chat'[i].text[j] \in 1..MaxChunks
            BY <6>3, ElementOfSeq
          <6> QED BY <2>2, <6>4 DEF Chunks
        <5> QED BY <1>4, <2>2, <3>1, <5>1, <5>2
      <4> QED BY <1>3, <4>1
    <3>2. ASSUME NEW p \in 1..MaxPages, post[x][p].msg = i PROVE k <= Last(x)
      <4>1. /\ p \in 1..Len(Pages(buffer[x])) /\ chat[i].text \in Text
            /\ Prefix(chat[i].text, Pages(buffer[x])[p])
        BY <1>1, <3>2, PostedIs
      <4>2. PICK y \in 1..Len(chat[i].text) : k = chat[i].text[y]
        BY <2>1, <2>2 DEF Chunks
      <4> QED BY <1>3, <4>1, <4>2, ChunkOnPage
    <3> QED BY <3>1, <3>2 DEF Posted
  <2> QED BY <2>1, <2>2
<1>10. ~Breaks(x)
  BY <1>1 DEF Breaks
<1> QED BY <1>7, <1>8, <1>9, <1>10 DEF Moves, Kinds

LEMMA ShownStep ==
  ASSUME Base, PostedInOrder, ShownOnceInOrder, Moves,
         PostedIsShown', BufferRuns', PostedInOrder', OlderIsAbove'
  PROVE  ShownOnceInOrder'
<1>0. TypeOK' /\ MaxPages \in Nat
  BY MaxPagesType DEF Moves
<1>1. \A i \in 1..Len(chat') : chat'[i].of \in Messages /\ chat'[i].text \in Text
  <2>1. chat' \in Seq(ChatMessage)
    BY <1>0 DEF TypeOK, ChatMessage
  <2>2. \A i \in 1..Len(chat') : chat'[i] \in ChatMessage
    BY <2>1, ElementOfSeq
  <2> QED BY <2>2 DEF ChatMessage
<1>2. SUFFICES ASSUME failures' = 0, NEW x \in Messages, Whole(x)',
                      NEW i \in 1..Len(chat'), NEW j \in 1..Len(chat'),
                      i < j, chat'[i].of = x, chat'[j].of = x,
                      NEW k \in Chunks(i)', NEW l \in Chunks(j)'
               PROVE  k < l
  BY <1>1 DEF ShownOnceInOrder, Whole
<1> DEFINE b == buffer'[x]
           last == Last(x)'
<1>3. /\ failures = 0 /\ Whole(x) /\ PostsAreKnown(x) /\ PostsAreKnown(x)'
      /\ Len(chat') \in Nat
  <2>1. failures = 0 /\ Whole(x)
    BY <1>2, WholeBefore DEF Moves
  <2>2. Len(chat') \in Nat
    BY <1>0, LenProperties DEF TypeOK
  <2> QED BY <1>2, <2>1, <2>2 DEF PostedInOrder
<1>4. /\ b \in Text /\ Len(b) \in Nat /\ last \in Int
      /\ \A n \in 1..Len(b) : b[n] = last - Len(b) + n
  <2>1. b \in Text /\ printed'[x] \in 0..MaxChunks /\ MaxChunks \in Nat
    BY <1>0, BoundsAssumption DEF TypeOK
  <2> QED BY <1>2, <2>1, LenProperties DEF BufferRuns, Text, Last
<1>5. PICK y \in 1..Len(chat'[i].text) : k = chat'[i].text[y]
  BY <1>2 DEF Chunks
<1>6. PICK z \in 1..Len(chat'[j].text) : l = chat'[j].text[z]
  BY <1>2 DEF Chunks
<1>7. ASSUME NEW p \in 1..MaxPages, post'[x][p].msg # 0
      PROVE  /\ p \in 1..Len(Pages(b)) /\ Prefix(chat'[post'[x][p].msg].text, Pages(b)[p])
             /\ post'[x][p].msg \in Nat
  <2>1. /\ p <= Len(Pages(b)) /\ Prefix(chat'[post'[x][p].msg].text, Pages(b)[p])
        /\ post'[x][p].msg \in 1..Len(chat')
    BY <1>7 DEF PostedIsShown
  <2>2. Len(Pages(b)) \in Nat
    BY <1>4, PageTypes
  <2> QED BY <1>0, <1>3, <2>1, <2>2
<1>8. /\ i # 0 /\ j # 0 /\ i \in Nat /\ j \in Nat /\ i < j
      /\ chat'[i].text \in Text /\ chat'[j].text \in Text
  BY <1>1, <1>2, <1>3
<1>9. ASSUME NEW p \in 1..MaxPages, post'[x][p].msg = i, NEW q \in 1..MaxPages, post'[x][q].msg = j
      PROVE  k < l
  <2>1. p < q
    <3>1. q < p => j < i
      BY <1>3, <1>8, <1>9 DEF PostsAreKnown
    <3> QED BY <1>0, <1>8, <1>9, <3>1
  <2>2. /\ p \in 1..Len(Pages(b)) /\ Prefix(chat'[i].text, Pages(b)[p])
        /\ q \in 1..Len(Pages(b)) /\ Prefix(chat'[j].text, Pages(b)[q])
    BY <1>7, <1>8, <1>9
  <2> DEFINE s == chat'[i].text
             t == chat'[j].text
  <2>3. /\ s \in Text /\ t \in Text /\ y \in 1..Len(s) /\ z \in 1..Len(t)
        /\ Prefix(s, Pages(b)[p]) /\ Prefix(t, Pages(b)[q])
    BY <1>8, <2>2
  <2> HIDE DEF b, last, s, t
  <2>4. s[y] < t[z]
    BY <1>4, <2>1, <2>2, <2>3, ChunksInOrder
  <2> QED BY <1>5, <1>6, <2>4 DEF s, t
<1>10. ASSUME ~Posted(x, i)', NEW q \in 1..MaxPages, post'[x][q].msg = j PROVE k < l
  <2>1. k <= last - Len(b)
    BY <1>2, <1>10 DEF OlderIsAbove
  <2>2. q \in 1..Len(Pages(b)) /\ Prefix(chat'[j].text, Pages(b)[q])
    BY <1>7, <1>8, <1>10
  <2>3. k \in Int /\ l \in Int
    <3>1. \A n \in 1..Len(chat'[i].text) : chat'[i].text[n] \in 1..MaxChunks
      BY <1>8, ElementOfSeq DEF Text
    <3>2. \A n \in 1..Len(chat'[j].text) : chat'[j].text[n] \in 1..MaxChunks
      BY <1>8, ElementOfSeq DEF Text
    <3> QED BY <1>5, <1>6, <3>1, <3>2
  <2> HIDE DEF b, last
  <2>4. l > last - Len(b)
    BY <1>4, <1>6, <1>8, <2>2, ChunkOnPage
  <2> QED BY <1>4, <2>1, <2>3, <2>4
<1>11. ASSUME NEW p \in 1..MaxPages, post'[x][p].msg = i, ~Posted(x, j)' PROVE FALSE
  <2>1. j < i
    BY <1>2, <1>8, <1>11 DEF OlderIsAbove
  <2> QED BY <1>8, <2>1
<1>12. CASE Posted(x, i)' \/ Posted(x, j)'
  BY <1>9, <1>10, <1>11, <1>12 DEF Posted
<1>13. ASSUME i \in 1..Len(chat), j \in 1..Len(chat), chat'[i] = chat[i], chat'[j] = chat[j]
       PROVE  k < l
  BY <1>2, <1>3, <1>13 DEF ShownOnceInOrder, Whole, Chunks
<1>14. CASE ChatKept(x)
  BY <1>2, <1>8, <1>13, <1>14 DEF ChatKept
<1>15. CASE Shows(x)
  <2> DEFINE at == sending[x].at
             d  == DeliveredAt(x)
  <2>1. /\ \A n \in 1..Len(chat') : n # d => n \in 1..Len(chat) /\ chat'[n] = chat[n]
        /\ at \in 1..MaxPages /\ post'[x][at] = [msg |-> d, text |-> Request(x)]
    BY <1>15, ShowsIs
  <2>2. post'[x][at].msg = d
    BY <2>1
  <2> HIDE DEF at, d
  <2>3. i = d \/ j = d => Posted(x, i)' \/ Posted(x, j)'
    BY <2>1, <2>2 DEF Posted
  <2> QED BY <1>12, <1>13, <2>1, <2>3
<1>16. ~Breaks(x)
  BY <1>2 DEF Breaks
<1>17. Kinds(x)
  BY DEF Moves
<1> QED BY <1>14, <1>15, <1>16, <1>17 DEF Kinds, Stays, Starts, Delays, Rotates

-----------------------------------------------------------------------------
(* The theorems.                                                           *)

LEMMA InitOK == Init => IndInv
<1> SUFFICES ASSUME Init PROVE IndInv
  OBVIOUS
<1>1. TypeOK
  <2>1. Unposted \in [1..MaxPages -> [msg : Nat, text : Text]] /\ <<>> \in Text /\ <<>> \in Seq(Text)
        /\ <<>> \in Seq([of : Messages, text : Text])
    BY EmptySeq DEF Unposted, Text
  <2>2. 0 \in 0..MaxChunks
    BY BoundsAssumption
  <2> QED BY <2>1, <2>2 DEF Init, TypeOK
<1>2. /\ \A m \in Messages : /\ pc[m] = "idle" /\ ended[m] = "no" /\ sending[m] = None
                             /\ buffer[m] = <<>> /\ lastPages[m] = <<>> /\ printed[m] = 0
                             /\ \A w \in Workers : work[m][w] = "none"
                             /\ \A p \in 1..MaxPages : post[m][p].msg = 0 /\ post[m][p].text = <<>>
      /\ chat = <<>> /\ interactive /\ Len(<<>>) = 0
  BY Sorts, EmptySeq DEF Init, Unposted
<1>3. Holders /\ LockIsPublish
  BY <1>2, Sorts DEF Holders, LockIsPublish
<1>4. SendsTheBuffer /\ PostedIsShown /\ FlushSettles
  BY <1>2 DEF SendsTheBuffer, PostedIsShown, FlushSettles
<1>5. BufferRuns
  BY <1>2, Sorts DEF BufferRuns, Last
<1>6. PostedInOrder /\ OlderIsAbove
  BY <1>2 DEF PostedInOrder, PostsAreKnown, OlderIsAbove
<1>7. ShownOnceInOrder
  BY <1>2 DEF ShownOnceInOrder
<1> QED BY <1>1, <1>3, <1>4, <1>5, <1>6, <1>7 DEF IndInv

LEMMA StepOK == IndInv /\ [Next]_vars => IndInv'
<1> SUFFICES ASSUME IndInv, [Next]_vars PROVE IndInv'
  OBVIOUS
<1>1. Base /\ Moves
  BY StepMoves DEF IndInv, Base
<1>2. TypeOK' /\ Holders' /\ LockIsPublish'
  BY <1>1 DEF Moves, Orderly
<1>3. SendsTheBuffer' /\ BufferRuns' /\ FlushSettles'
  BY <1>1, SendsStep, BufferStep, FlushStep DEF IndInv
<1>4. PostedIsShown'
  BY <1>1, PostedStep
<1>5. PostedInOrder'
  BY <1>1, <1>3, <1>4, PostsStep DEF IndInv
<1>6. OlderIsAbove'
  BY <1>1, OlderStep DEF IndInv
<1>7. ShownOnceInOrder'
  BY <1>1, <1>3, <1>4, <1>5, <1>6, ShownStep DEF IndInv
<1> QED BY <1>2, <1>3, <1>4, <1>5, <1>6, <1>7 DEF IndInv

(* The inductive invariant holds in every state of every behaviour.        *)
THEOREM IndInvHolds == Spec => []IndInv
<1>1. Init => IndInv
  BY InitOK
<1>2. IndInv /\ [Next]_vars => IndInv'
  BY StepOK
<1> QED BY <1>1, <1>2, PTL DEF Spec

(* Every variable of the handlers, the streams and the chat keeps its type.*)
THEOREM TypeOKHolds == Spec => []TypeOK
<1>1. IndInv => TypeOK
  BY DEF IndInv
<1> QED BY <1>1, IndInvHolds, PTL

(* Unless Telegram refuses a request or /exit cuts the command off, its    *)
(* messages show its output in order and nothing twice, whichever of       *)
(* on_stream, delayed_publish and flush publish it and however often input *)
(* rotates the stream (session.py:111-225, hybrid_stream.py:36-80).        *)
THEOREM ShownOnceInOrderHolds == Spec => []ShownOnceInOrder
<1>1. IndInv => ShownOnceInOrder
  BY DEF IndInv
<1> QED BY <1>1, IndInvHolds, PTL

(* When the handler of a command is done with its result, what the stream  *)
(* holds is in the chat, although other workers published part of it and   *)
(* pages that had not changed were skipped (flush, session.py:205-211).    *)
THEOREM FlushedIsShownHolds == Spec => []FlushedIsShown
<1>1. IndInv => FlushedIsShown
  <2> SUFFICES ASSUME IndInv, NEW m \in Messages, HasEnded(m), failures = 0,
                      NEW i \in 1..Len(buffer[m])
               PROVE  Shown(m, buffer[m][i])
    BY DEF FlushedIsShown
  <2>1. Base /\ buffer[m] \in Text /\ lastPages[m] \in Seq(Text)
    BY DEF IndInv, Base, TypeOK
  <2>2. buffer[m] # <<>>
    BY EmptySeq
  <2>3. lastPages[m] = Pages(buffer[m]) /\ PostsAreKnown(m)
    BY <2>2 DEF IndInv, HasEnded, FlushSettles, Settled, PostedInOrder, Whole
  <2>4. PICK p \in 1..Len(Pages(buffer[m])) : \E y \in 1..Len(Pages(buffer[m])[p]) :
                                                 Pages(buffer[m])[p][y] = buffer[m][i]
    BY <2>1, EveryChunk
  <2>5. PICK y \in 1..Len(Pages(buffer[m])[p]) : Pages(buffer[m])[p][y] = buffer[m][i]
    BY <2>4
  <2>6. p \in 1..MaxPages /\ Len(Pages(buffer[m])) \in Nat
    BY <2>1, <2>3, PageTypes, MaxPagesType DEF PostsAreKnown
  <2> DEFINE at == post[m][p].msg
  <2>7. /\ at # 0 /\ Prefix(Pages(buffer[m])[p], post[m][p].text) /\ chat[at].text = post[m][p].text
    BY <2>3, <2>6 DEF PostsAreKnown
  <2>8. at \in 1..Len(chat) /\ chat[at].of = m /\ chat[at].text \in Text
    BY <2>1, <2>6, <2>7, PostedIs
  <2> HIDE DEF at
  <2>9. y \in 1..Len(chat[at].text) /\ chat[at].text[y] = buffer[m][i]
    <3>1. Len(Pages(buffer[m])[p]) \in Nat /\ Len(chat[at].text) \in Nat
      BY <2>1, <2>8, PageTypes, LenProperties DEF Text
    <3> QED BY <2>5, <2>7, <3>1 DEF Prefix
  <2> QED BY <2>8, <2>9 DEF Shown, Chunks
<1> QED BY <1>1, IndInvHolds, PTL

(* What is sent for a page is in the buffer, chunk for chunk.              *)
LEMMA PageIsBuffered ==
  ASSUME NEW b \in Text, NEW p \in 1..Len(Pages(b)), NEW s \in Text, Prefix(s, Pages(b)[p]),
         NEW x \in 1..Len(s)
  PROVE  \E j \in 1..Len(b) : s[x] = b[j]
<1>1. x \in 1..Len(Pages(b)[p]) /\ s[x] = Pages(b)[p][x]
  <2>1. Len(s) \in Nat /\ Len(Pages(b)[p]) \in Nat
    BY PageTypes, LenProperties DEF Text
  <2> QED BY <2>1 DEF Prefix
<1>2. Before(p) + x \in 1..Len(b) /\ Pages(b)[p][x] = b[Before(p) + x]
  BY <1>1, PagesInOrder
<1> QED BY <1>1, <1>2

(* Input freezes the messages it was typed under: no step changes one that *)
(* shows output from before it, whether a request that was under way is    *)
(* answered, raises, is sent again or is cut off (session.py:216-225).     *)
THEOREM EarlierStaysHolds == Spec => EarlierStays
<1>1. IndInv /\ [Next]_vars =>
        [\A i \in 1..Len(chat) : ~(Chunks(i) \subseteq Buffered(chat[i].of)) => chat'[i] = chat[i]]_vars
  <2> SUFFICES ASSUME IndInv, [Next]_vars, NEW i \in 1..Len(chat), chat'[i] # chat[i]
               PROVE  Chunks(i) \subseteq Buffered(chat[i].of)
    OBVIOUS
  <2>1. Base /\ Delivers
    BY StepMoves DEF IndInv, Base, Moves
  <2>2. PICK m \in Messages : sending[m] # None /\ chat' = Delivered(m)
    BY <2>1 DEF Delivers
  <2>3. i = DeliveredAt(m) /\ sending[m].call = "edit"
    <3>1. Len(chat) \in Nat
      BY <2>1, LenProperties DEF Base, TypeOK
    <3>2. i = DeliveredAt(m)
      BY <2>1, <2>2, DeliveredIs DEF Base
    <3> QED BY <3>1, <3>2 DEF DeliveredAt
  <2> DEFINE at == sending[m].at
             b  == buffer[m]
  <2>4. b \in Text /\ at \in 1..MaxPages /\ at \in 1..Len(Pages(b)) /\ post[m][at].msg = i /\ i # 0
    <3>1. b \in Text /\ at \in 1..MaxPages /\ at \in 1..Len(Pages(b))
      BY <2>1, <2>2, RequestIs DEF Base, TypeOK
    <3> QED BY <2>1, <2>3, <3>1, LenProperties DEF DeliveredAt, Base, TypeOK
  <2>5. chat[i].of = m /\ Prefix(chat[i].text, Pages(b)[at])
    BY <2>1, <2>4 DEF Base, PostedIsShown
  <2>6. chat[i].text \in Text
    <3>1. chat \in Seq(ChatMessage)
      BY <2>1 DEF Base, TypeOK, ChatMessage
    <3>2. chat[i] \in ChatMessage
      BY <3>1, ElementOfSeq
    <3> QED BY <3>2 DEF ChatMessage
  <2> HIDE DEF at, b
  <2>7. \A x \in 1..Len(chat[i].text) : \E j \in 1..Len(b) : chat[i].text[x] = b[j]
    BY <2>4, <2>5, <2>6, PageIsBuffered
  <2> QED BY <2>5, <2>7 DEF Chunks, Buffered, b
<1> QED BY <1>1, IndInvHolds, PTL DEF Spec, EarlierStays

(* Once the handler of a command is done with its result, no step adds or  *)
(* changes a message of it: delayed_publish tasks that are still pending   *)
(* find nothing to send (session.py:151-162, 205-211).                     *)
THEOREM QuietAfterEndHolds == Spec => QuietAfterEnd
<1>1. IndInv /\ [Next]_vars =>
        [\A m \in Messages : HasEnded(m) =>
           \A i \in 1..Len(chat') : chat'[i].of = m => i <= Len(chat) /\ chat'[i] = chat[i]]_vars
  <2> SUFFICES ASSUME IndInv, [Next]_vars, NEW m \in Messages, HasEnded(m)
               PROVE  \A i \in 1..Len(chat') : chat'[i].of = m =>
                        i <= Len(chat) /\ chat'[i] = chat[i]
    OBVIOUS
  <2>1. Base /\ Delivers
    BY StepMoves DEF IndInv, Base, Moves
  <2>2. sending[m] = None
    BY DEF IndInv, HasEnded, FlushSettles, Settled
  <2>3. ChatKept(m)
    BY <2>1, <2>2, ChatKeptIs DEF Delivers
  <2> QED BY <2>3 DEF ChatKept
<1> QED BY <1>1, IndInvHolds, PTL DEF Spec, QuietAfterEnd

===============================================================================
