-------------------------- MODULE StackReportProofs --------------------------
(***************************************************************************)
(* Proofs about funcslower's stack capture and print_stack: the state is   *)
(* well typed, and, when -U and -K are not given together and -K is given *)
(* only with -f, the stacks printed are the stacks requested.  The         *)
(* argument rests on get_stackid without BPF_F_REUSE_STACKID writing only  *)
(* empty buckets, so an id kept in a record still names its stack when     *)
(* perf_buffer_poll prints it.                                             *)
(***************************************************************************)
EXTENDS StackReport, FiniteSetTheorems, SequenceTheorems, TLAPS

\* The option sets print_stack handles: not -U and -K together (the
\* stackreport_uk run shows them wrong), and -K only folded (in tree mode
\* aksym raises, as the stackreport_ktree run shows).
PrintableScope ==
  \A o \in ArgChoices : ~(o.user /\ o.kernel) /\ (o.kernel => o.folded)

StackMapType == [Buckets -> Stacks \cup {NoStack}]

\* what the stack id of one side of a record can be in map map: 0 when the
\* side is off, -EFAULT when the call had no such stack, the errno of a
\* failed get_stackid, or a bucket holding the stack
SideOK(map, on, s, id) ==
  IF ~on THEN id = 0
  ELSE IF s = NoStack THEN id = -EFAULT
  ELSE id \in {-EEXIST, -ENOMEM} \/ (id \in Buckets /\ map[id] = s)

RecOK(map, o, r) ==
  SideOK(map, o.user, r.us, r.uid) /\ SideOK(map, o.kernel, r.ks, r.kid)

\* The inductive invariant behind ShownAsRequested.
RInv ==
  /\ TypeOK
  /\ \A i \in DOMAIN buf : RecOK(stackmap, opts, buf[i])
  /\ ShownAsRequested

\* map2 keeps every stack map holds
Keeps(map, map2) == \A b \in Buckets : map[b] # NoStack => map2[b] = map[b]

USE StackMapAssumption, NBucketsAssumption, StackReportAssumption

-----------------------------------------------------------------------------
LEMMA BucketOfType ==
  ASSUME NEW s \in Stacks
  PROVE  BucketOf(s) \in Buckets
BY DEF BucketOf, Buckets

\* get_stackid without BPF_F_REUSE_STACKID keeps every occupied bucket, and
\* its id is an errno or the bucket now holding the stack.
LEMMA GetStackIdNoReuse ==
  ASSUME NEW map \in StackMapType, NEW s \in Stacks
  PROVE  LET g == GetStackId(map, s, FALSE) IN
         /\ g.map \in StackMapType
         /\ Keeps(map, g.map)
         /\ g.id \in {-EEXIST, -ENOMEM} \/ (g.id \in Buckets /\ g.map[g.id] = s)
<1> DEFINE b == BucketOf(s)
<1>1. b \in Buckets
  BY BucketOfType
<1>2. CASE map[b] = s
  BY <1>1, <1>2 DEF GetStackId, Keeps
<1>3. CASE map[b] # s /\ map[b] # NoStack
  BY <1>3 DEF GetStackId, Keeps
<1>4. CASE map[b] = NoStack /\ InUse(map) >= STORAGE
  BY <1>4 DEF GetStackId, Keeps
<1>5. CASE map[b] = NoStack /\ ~(InUse(map) >= STORAGE)
  <2>1. GetStackId(map, s, FALSE) = [id |-> b, map |-> [map EXCEPT ![b] = s]]
    BY <1>5 DEF GetStackId
  <2> DEFINE m2 == [map EXCEPT ![b] = s]
  <2>2. m2 \in StackMapType
    BY <1>1 DEF StackMapType
  <2>3. Keeps(map, m2)
    BY <1>1, <1>5 DEF Keeps, StackMapType
  <2>4. b \in Buckets /\ m2[b] = s
    BY <1>1 DEF StackMapType
  <2>5. GetStackId(map, s, FALSE).map = m2 /\ GetStackId(map, s, FALSE).id = b
    BY <1>5 DEF GetStackId
  <2>. QED  BY <2>2, <2>3, <2>4, <2>5
<1>. QED  BY <1>2, <1>3, <1>4, <1>5

\* The ids a capture can store, whatever the options.
LEMMA CaptureType ==
  ASSUME NEW map \in StackMapType, NEW s \in Stacks \cup {NoStack},
         NEW compiled \in BOOLEAN
  PROVE  LET c == Capture(map, s, compiled) IN
         /\ c.map \in StackMapType
         /\ Keeps(map, c.map)
         /\ c.id \in StackIds
<1>1. CASE ~compiled \/ s = NoStack
  BY <1>1 DEF Capture, Keeps, StackIds
<1>2. CASE compiled /\ s \in Stacks
  <2>1. Capture(map, s, compiled) = GetStackId(map, s, FALSE)
    BY <1>2 DEF Capture
  <2>. QED  BY <1>2, <2>1, GetStackIdNoReuse DEF StackIds
<1>. QED  BY <1>1, <1>2

\* A compiled-in capture stores an id SideOK accepts.
LEMMA CaptureOK ==
  ASSUME NEW map \in StackMapType, NEW s \in Stacks \cup {NoStack}
  PROVE  SideOK(Capture(map, s, TRUE).map, TRUE, s, Capture(map, s, TRUE).id)
<1>1. CASE s = NoStack
  BY <1>1 DEF Capture, SideOK
<1>2. CASE s \in Stacks
  <2>1. Capture(map, s, TRUE) = GetStackId(map, s, FALSE)
    BY <1>2 DEF Capture
  <2>. QED  BY <1>2, <2>1, GetStackIdNoReuse DEF SideOK
<1>. QED  BY <1>1, <1>2

\* SideOK survives a map that keeps every occupied bucket.
LEMMA SideKept ==
  ASSUME NEW map \in StackMapType, NEW map2, Keeps(map, map2),
         NEW on, NEW s \in Stacks \cup {NoStack}, NEW id, SideOK(map, on, s, id)
  PROVE  SideOK(map2, on, s, id)
BY DEF SideOK, Keeps

\* Keeping every occupied bucket is transitive.
LEMMA KeepsTrans ==
  ASSUME NEW m1, NEW m2, NEW m3, Keeps(m1, m2), Keeps(m2, m3)
  PROVE  Keeps(m1, m3)
BY DEF Keeps

-----------------------------------------------------------------------------
(***************************************************************************)
(* Type correctness.                                                       *)
(***************************************************************************)

\* the kinds of token print_stack emits
TokenKinds == {"name", "user", "kernel", "missed_user", "missed_kernel", "delim"}

LEMMA TokType ==
  ASSUME NEW k \in TokenKinds
  PROVE  <<Tok(k)>> \in Seq(Token)
BY DEF Tok, Token, TokenKinds

\* stack_traces.walk(id) lists a stack of the map, for every id a record
\* can hold.
LEMMA FramesType ==
  ASSUME stackmap \in StackMapType, NEW k \in {"user", "kernel"}, NEW on,
         NEW id \in StackIds
  PROVE  Frames(k, on, id) \in Seq(Token)
<1>1. CASE on /\ id >= 0 /\ stackmap[id] # NoStack
  <2>1. id \in Buckets
    BY <1>1 DEF StackIds, EFAULT, EEXIST, ENOMEM, Buckets
  <2>2. stackmap[id] \in Stacks
    BY <1>1, <2>1 DEF StackMapType
  <2>. QED  BY <1>1, <2>2 DEF Frames, Token
<1>. QED  BY <1>1 DEF Frames

LEMMA PartsType ==
  ASSUME stackmap \in StackMapType, NEW r \in Rec
  PROVE  /\ UserPart(r) \in Seq(Token)
         /\ KernelPart(r) \in Seq(Token)
         /\ Delimiter(r) \in Seq(Token)
<1>1. r.uid \in StackIds /\ r.kid \in StackIds
  BY DEF Rec
<1>2. UserPart(r) \in Seq(Token)
  BY <1>1, FramesType, TokType DEF UserPart, TokenKinds
<1>3. KernelPart(r) \in Seq(Token)
  BY <1>1, FramesType, TokType DEF KernelPart, TokenKinds
<1>4. Delimiter(r) \in Seq(Token)
  BY TokType DEF Delimiter, TokenKinds
<1>. QED  BY <1>2, <1>3, <1>4

\* The lines print_stack prints for a record, folded or as a tree.
Lines(r) == IF opts.folded THEN FoldedLines(r) ELSE TreeLines(r)

LEMMA LinesType ==
  ASSUME TypeOK, NEW r \in Rec
  PROVE  Lines(r) \in Seq(Token)
<1>1. stackmap \in StackMapType
  BY DEF TypeOK, StackMapType
<1>2. <<Tok("name")>> \in Seq(Token)
  BY TokType DEF TokenKinds
<1>3. FoldedLines(r) \in Seq(Token)
  BY <1>1, <1>2, PartsType DEF FoldedLines
<1>4. TreeLines(r) \in Seq(Token)
  <2>1. CASE AksymRaises(r)
    BY <2>1 DEF TreeLines
  <2>2. CASE ~AksymRaises(r)
    BY <1>1, <1>2, <2>2, PartsType DEF TreeLines
  <2>. QED  BY <2>1, <2>2
<1>. QED  BY <1>3, <1>4 DEF Lines

LEMMA InitTypeOK == Init => TypeOK
BY DEF Init, TypeOK, EmptyStackMap

\* the two captures of trace_return, for any options
LEMMA SubmitTypeOK ==
  ASSUME TypeOK, NEW us \in UserStacks \cup {NoStack},
         NEW ks \in KernelStacks \cup {NoStack}, Submit(us, ks)
  PROVE  TypeOK'
<1> DEFINE u == IF opts.user THEN Capture(stackmap, us, UserGetCompiled(opts))
                ELSE [id |-> 0, map |-> stackmap]
           k == IF opts.kernel THEN Capture(u.map, ks, KernelGetCompiled(opts))
                ELSE [id |-> 0, map |-> u.map]
<1>1. opts \in [user : BOOLEAN, kernel : BOOLEAN, folded : BOOLEAN]
      /\ stackmap \in StackMapType
  BY DEF TypeOK, StackMapType
<1>2. us \in Stacks \cup {NoStack} /\ ks \in Stacks \cup {NoStack}
  OBVIOUS
<1>3. u.map \in StackMapType /\ u.id \in StackIds
  BY <1>1, <1>2, CaptureType DEF UserGetCompiled, StackIds, Buckets
<1>4. k.map \in StackMapType /\ k.id \in StackIds
  BY <1>1, <1>2, <1>3, CaptureType DEF KernelGetCompiled, StackIds, Buckets
<1>5. stackmap' = k.map
      /\ buf' = Append(buf, [us |-> us, ks |-> ks, uid |-> u.id, kid |-> k.id])
  BY DEF Submit
<1>6. [us |-> us, ks |-> ks, uid |-> u.id, kid |-> k.id] \in Rec
  BY <1>3, <1>4 DEF Rec
<1>. QED  BY <1>4, <1>5, <1>6 DEF Submit, TypeOK, StackMapType

LEMMA NextTypeOK == TypeOK /\ [Next]_vars => TypeOK'
<1> SUFFICES ASSUME TypeOK, [Next]_vars PROVE TypeOK'
  OBVIOUS
<1>1. CASE \E us \in UserStacks \cup {NoStack}, ks \in KernelStacks \cup {NoStack} :
             Submit(us, ks)
  BY <1>1, SubmitTypeOK
<1>2. CASE PrintEvent
  <2>1. buf # <<>> /\ Head(buf) \in Rec
    BY <1>2 DEF PrintEvent, TypeOK
  <2>2. Lines(Head(buf)) \in Seq(Token)
    BY <2>1, LinesType
  <2>3. out' = Append(out, [rec |-> Head(buf), lines |-> Lines(Head(buf))])
    BY <1>2 DEF PrintEvent, Lines
  <2>. QED  BY <1>2, <2>1, <2>2, <2>3 DEF PrintEvent, TypeOK
<1>3. CASE PrintLatencyOnly
  BY <1>3 DEF PrintLatencyOnly, TypeOK
<1>4. CASE Finished \/ UNCHANGED vars
  BY <1>4 DEF Finished, vars, TypeOK
<1>. QED  BY <1>1, <1>2, <1>3, <1>4 DEF Next

\* Whatever the options, the records, the stack map and the printed lines
\* have their types: every stack id a record holds is a bucket, an errno,
\* -1 or 0, and print_stack prints only tokens naming stacks of the map.
THEOREM TypeCorrect == Spec => []TypeOK
BY InitTypeOK, NextTypeOK, PTL DEF Spec

-----------------------------------------------------------------------------
(***************************************************************************)
(* What print_stack shows.                                                 *)
(***************************************************************************)

\* the tokens of a printed line sequence
Toks(l) == {l[i] : i \in DOMAIN l}

LEMMA ToksConcat ==
  ASSUME NEW a \in Seq(Token), NEW b \in Seq(Token)
  PROVE  Toks(a \o b) = Toks(a) \cup Toks(b)
<1>1. Toks(a \o b) \subseteq Toks(a) \cup Toks(b)
  <2> SUFFICES ASSUME NEW i \in DOMAIN (a \o b) PROVE (a \o b)[i] \in Toks(a) \cup Toks(b)
    BY DEF Toks
  <2>1. CASE i <= Len(a)
    BY <2>1 DEF Toks
  <2>2. CASE i > Len(a)
    <3>1. i - Len(a) \in DOMAIN b /\ (a \o b)[i] = b[i - Len(a)]
      BY <2>2
    <3>. QED  BY <3>1 DEF Toks
  <2>. QED  BY <2>1, <2>2
<1>2. Toks(a) \subseteq Toks(a \o b)
  <2> SUFFICES ASSUME NEW i \in DOMAIN a PROVE a[i] \in Toks(a \o b)
    BY DEF Toks
  <2>1. i \in DOMAIN (a \o b) /\ (a \o b)[i] = a[i]
    OBVIOUS
  <2>. QED  BY <2>1 DEF Toks
<1>3. Toks(b) \subseteq Toks(a \o b)
  <2> SUFFICES ASSUME NEW i \in DOMAIN b PROVE b[i] \in Toks(a \o b)
    BY DEF Toks
  <2>1. Len(a) + i \in DOMAIN (a \o b) /\ (a \o b)[Len(a) + i] = b[i]
    OBVIOUS
  <2>. QED  BY <2>1 DEF Toks
<1>. QED  BY <1>1, <1>2, <1>3

\* ShownAsRequested for one side of one printed record
SideShown(l, on, s, id, k, missed) ==
  /\ on /\ s # NoStack => Shows(l, k, s) \/ ShowsKind(l, missed)
  /\ ~on => ~ShowsKind(l, k) /\ ~ShowsKind(l, missed)
  /\ ShowsKind(l, missed) => id \in {-EEXIST, -ENOMEM}

ShownOK(o, r, l) ==
  /\ SideShown(l, o.user, r.us, r.uid, "user", "missed_user")
  /\ SideShown(l, o.kernel, r.ks, r.kid, "kernel", "missed_kernel")

\* The body of ShownAsRequested for one record r printed as l.
LEMMA ShownOne ==
  ASSUME NEW o, NEW r, NEW l
  PROVE  (LET side == [user |-> [on |-> o.user, s |-> r.us, id |-> r.uid,
                                 missed |-> "missed_user"],
                       kernel |-> [on |-> o.kernel, s |-> r.ks, id |-> r.kid,
                                   missed |-> "missed_kernel"]]
          IN \A k \in {"user", "kernel"} :
               /\ side[k].on /\ side[k].s # NoStack =>
                    Shows(l, k, side[k].s) \/ ShowsKind(l, side[k].missed)
               /\ ~side[k].on => ~ShowsKind(l, k) /\ ~ShowsKind(l, side[k].missed)
               /\ ShowsKind(l, side[k].missed) => side[k].id \in {-EEXIST, -ENOMEM})
         <=> ShownOK(o, r, l)
<1> DEFINE side == [user |-> [on |-> o.user, s |-> r.us, id |-> r.uid,
                              missed |-> "missed_user"],
                    kernel |-> [on |-> o.kernel, s |-> r.ks, id |-> r.kid,
                                missed |-> "missed_kernel"]]
           P(k) == /\ side[k].on /\ side[k].s # NoStack =>
                        Shows(l, k, side[k].s) \/ ShowsKind(l, side[k].missed)
                   /\ ~side[k].on => ~ShowsKind(l, k) /\ ~ShowsKind(l, side[k].missed)
                   /\ ShowsKind(l, side[k].missed) => side[k].id \in {-EEXIST, -ENOMEM}
<1>1. (\A k \in {"user", "kernel"} : P(k)) <=> P("user") /\ P("kernel")
  OBVIOUS
<1>2. P("user") <=> SideShown(l, o.user, r.us, r.uid, "user", "missed_user")
  BY DEF SideShown
<1>3. P("kernel") <=> SideShown(l, o.kernel, r.ks, r.kid, "kernel", "missed_kernel")
  BY DEF SideShown
<1>. QED  BY <1>1, <1>2, <1>3 DEF ShownOK

LEMMA ShownIs ==
  /\ ShownAsRequested <=> \A i \in DOMAIN out : ShownOK(opts, out[i].rec, out[i].lines)
  /\ ShownAsRequested' <=> \A i \in DOMAIN out' : ShownOK(opts', out'[i].rec, out'[i].lines)
<1>1. ShownAsRequested <=> \A i \in DOMAIN out : ShownOK(opts, out[i].rec, out[i].lines)
  BY ShownOne DEF ShownAsRequested
<1>2. ShownAsRequested' <=> \A i \in DOMAIN out' : ShownOK(opts', out'[i].rec, out'[i].lines)
  BY ShownOne DEF ShownAsRequested
<1>. QED  BY <1>1, <1>2

\* One side of print_stack (the stack_id_err placeholder, or the walk of
\* the id) shows the side's stack or its placeholder, and the placeholder
\* only for -EEXIST or -ENOMEM, when the id is one a capture stored.
LEMMA PartShown ==
  ASSUME stackmap \in StackMapType, NEW s \in Stacks \cup {NoStack},
         NEW id \in StackIds, SideOK(stackmap, TRUE, s, id),
         NEW k \in {"user", "kernel"}, NEW m \in {"missed_user", "missed_kernel"}
  PROVE  LET T == {Tok("name")} \cup
                  Toks(IF StackIdErr(id) THEN <<Tok(m)>> ELSE Frames(k, TRUE, id))
         IN  /\ s # NoStack => (\E x \in T : x.kind = k /\ x.stack = s) \/
                               (\E x \in T : x.kind = m)
             /\ (\E x \in T : x.kind = m) => id \in {-EEXIST, -ENOMEM}
             /\ \A x \in T : x.kind \in {"name", k, m}
<1>1. CASE StackIdErr(id)
  <2>1. {Tok("name")} \cup Toks(IF StackIdErr(id) THEN <<Tok(m)>> ELSE Frames(k, TRUE, id))
          = {Tok("name"), Tok(m)}
    BY <1>1 DEF Toks
  <2>2. id \in {-EEXIST, -ENOMEM}
    BY <1>1 DEF StackIdErr, SideOK, Buckets, EFAULT, EEXIST, ENOMEM
  <2>3. Tok(m).kind = m /\ Tok("name").kind = "name"
    BY DEF Tok
  <2>4. \A x \in {Tok("name"), Tok(m)} : x.kind \in {"name", k, m}
    BY <2>3
  <2>. QED  BY <2>1, <2>2, <2>3, <2>4
<1>2. CASE ~StackIdErr(id)
  <2>1. ~(id \in {-EEXIST, -ENOMEM})
    BY <1>2 DEF StackIdErr, EFAULT, EEXIST, ENOMEM
  <2>3. ASSUME s # NoStack
        PROVE  [kind |-> k, stack |-> s] \in Toks(Frames(k, TRUE, id))
    <3>1. id \in Buckets /\ stackmap[id] = s
      BY <2>1, <2>3 DEF SideOK
    <3>2. id >= 0 /\ stackmap[id] # NoStack
      BY <2>3, <3>1 DEF Buckets
    <3>. QED  BY <3>1, <3>2 DEF Frames, Toks
  <2>4. {Tok("name")} \cup Toks(IF StackIdErr(id) THEN <<Tok(m)>> ELSE Frames(k, TRUE, id))
          = {Tok("name")} \cup Toks(Frames(k, TRUE, id))
    BY <1>2
  <2> DEFINE T == {Tok("name")} \cup Toks(Frames(k, TRUE, id))
  <2>5. \A x \in T : x.kind \in {"name", k}
    <3>1. \A x \in Toks(Frames(k, TRUE, id)) : x.kind = k
      BY DEF Frames, Toks
    <3>2. Tok("name").kind = "name"
      BY DEF Tok
    <3>. QED  BY <3>1, <3>2
  <2>6. ~\E x \in T : x.kind = m
    BY <2>5
  <2>7. ASSUME s # NoStack PROVE \E x \in T : x.kind = k /\ x.stack = s
    <3>1. [kind |-> k, stack |-> s] \in T
      BY <2>3, <2>7
    <3>. QED  BY <3>1
  <2>. QED  BY <2>4, <2>5, <2>6, <2>7, Zenon
<1>. QED  BY <1>1, <1>2

LEMMA ToksSmall ==
  /\ Toks(<<>>) = {}
  /\ \A x : Toks(<<x>>) = {x}
BY DEF Toks

\* With one scope, and -K folded, print_stack prints the task name and
\* that side only.
LEMMA LinesToks ==
  ASSUME TypeOK, NEW r \in Rec, ~(opts.user /\ opts.kernel),
         opts.kernel => opts.folded
  PROVE  /\ opts.user => Toks(Lines(r)) = {Tok("name")} \cup Toks(UserPart(r))
         /\ opts.kernel => Toks(Lines(r)) = {Tok("name")} \cup Toks(KernelPart(r))
<1>1. stackmap \in StackMapType
  BY DEF TypeOK, StackMapType
<1> DEFINE N == <<Tok("name")>>
           E == << >>
<1>2. /\ UserPart(r) \in Seq(Token) /\ KernelPart(r) \in Seq(Token)
      /\ N \in Seq(Token) /\ E \in Seq(Token)
      /\ Delimiter(r) = E
  BY <1>1, PartsType, TokType DEF TokenKinds, Delimiter, NeedDelimiter
<1>3. Toks(N) = {Tok("name")} /\ Toks(E) = {}
  BY ToksSmall
<1>4. ASSUME NEW P \in Seq(Token)
      PROVE  /\ Toks((N \o P) \o E) = {Tok("name")} \cup Toks(P)
             /\ Toks((E \o P) \o N) = {Tok("name")} \cup Toks(P)
             /\ Toks((N \o E) \o (E \o P)) = {Tok("name")} \cup Toks(P)
             /\ Toks((P \o E) \o N) = {Tok("name")} \cup Toks(P)
  <2>1. /\ N \o P \in Seq(Token) /\ E \o P \in Seq(Token)
        /\ N \o E \in Seq(Token) /\ P \o E \in Seq(Token)
    BY <1>2
  <2>2. Toks(N \o P) = Toks(N) \cup Toks(P)
    BY <1>2, ToksConcat
  <2>3. Toks(E \o P) = Toks(E) \cup Toks(P)
    BY <1>2, ToksConcat
  <2>4. Toks(N \o E) = Toks(N) \cup Toks(E)
    BY <1>2, ToksConcat
  <2>5. Toks(P \o E) = Toks(P) \cup Toks(E)
    BY <1>2, ToksConcat
  <2>6. Toks((N \o P) \o E) = Toks(N \o P) \cup Toks(E)
    BY <1>2, <2>1, ToksConcat
  <2>7. Toks((E \o P) \o N) = Toks(E \o P) \cup Toks(N)
    BY <1>2, <2>1, ToksConcat
  <2>8. Toks((N \o E) \o (E \o P)) = Toks(N \o E) \cup Toks(E \o P)
    BY <1>2, <2>1, ToksConcat
  <2>9. Toks((P \o E) \o N) = Toks(P \o E) \cup Toks(N)
    BY <1>2, <2>1, ToksConcat
  <2>. QED  BY <1>3, <2>2, <2>3, <2>4, <2>5, <2>6, <2>7, <2>8, <2>9
<1>5. ASSUME opts.user PROVE Toks(Lines(r)) = {Tok("name")} \cup Toks(UserPart(r))
  <2>1. ~opts.kernel
    BY <1>5
  <2>2. FoldedLines(r) = (N \o UserPart(r)) \o E
    BY <1>5, <2>1 DEF FoldedLines
  <2>3. TreeLines(r) = (E \o (Delimiter(r) \o UserPart(r))) \o N
    BY <1>5, <2>1 DEF TreeLines, AksymRaises
  <2>4. E \o UserPart(r) = UserPart(r)
    BY <1>2
  <2>5. TreeLines(r) = (E \o UserPart(r)) \o N
    BY <1>2, <2>3, <2>4
  <2>. QED  BY <1>2, <1>4, <2>2, <2>5 DEF Lines
<1>6. ASSUME opts.kernel PROVE Toks(Lines(r)) = {Tok("name")} \cup Toks(KernelPart(r))
  <2>1. ~opts.user
    BY <1>6
  <2>2. FoldedLines(r) = (N \o E) \o (Delimiter(r) \o KernelPart(r))
    BY <1>6, <2>1 DEF FoldedLines
  <2>3. FoldedLines(r) = (N \o E) \o (E \o KernelPart(r))
    BY <1>2, <2>2
  <2>4. Lines(r) = FoldedLines(r)
    BY <1>6 DEF Lines
  <2>. QED  BY <1>2, <1>4, <2>3, <2>4
<1>. QED  BY <1>5, <1>6

\* print_stack with one scope shows a record whose ids are ones the
\* captures stored as requested.
LEMMA LinesShown ==
  ASSUME TypeOK, PrintableScope, NEW r \in Rec, RecOK(stackmap, opts, r),
         opts.user \/ opts.kernel
  PROVE  ShownOK(opts, r, Lines(r))
<1>1. /\ stackmap \in StackMapType /\ ~(opts.user /\ opts.kernel)
      /\ opts.kernel => opts.folded
  BY DEF TypeOK, StackMapType, PrintableScope
<1>2. r.us \in Stacks \cup {NoStack} /\ r.ks \in Stacks \cup {NoStack}
      /\ r.uid \in StackIds /\ r.kid \in StackIds
  BY DEF Rec
<1>3. CASE opts.user
  <2> DEFINE T == {Tok("name")} \cup
                  Toks(IF StackIdErr(r.uid) THEN <<Tok("missed_user")>>
                       ELSE Frames("user", TRUE, r.uid))
  <2>0. PICK l : l = Lines(r)
    OBVIOUS
  <2>1. Toks(l) = T
    BY <2>0, <1>1, <1>3, LinesToks DEF UserPart
  <2>2. SideOK(stackmap, TRUE, r.us, r.uid)
    BY <1>3 DEF RecOK
  <2>3. /\ r.us # NoStack => (\E x \in T : x.kind = "user" /\ x.stack = r.us) \/
                             (\E x \in T : x.kind = "missed_user")
        /\ (\E x \in T : x.kind = "missed_user") => r.uid \in {-EEXIST, -ENOMEM}
        /\ \A x \in T : x.kind \in {"name", "user", "missed_user"}
    BY <1>1, <1>2, <2>2, PartShown
  <2>9. /\ \A k0, s0 : Shows(l, k0, s0) <=>
                        \E x \in Toks(l) : x.kind = k0 /\ x.stack = s0
        /\ \A k0 : ShowsKind(l, k0) <=> \E x \in Toks(l) : x.kind = k0
    BY DEF Shows, ShowsKind, Toks
  <2>6. \A k0, s0 : Shows(l, k0, s0) <=> \E x \in T : x.kind = k0 /\ x.stack = s0
    <3> SUFFICES ASSUME NEW k0, NEW s0
                 PROVE  Shows(l, k0, s0) <=> \E x \in T : x.kind = k0 /\ x.stack = s0
      OBVIOUS
    <3>1. Shows(l, k0, s0) <=> \E x \in Toks(l) : x.kind = k0 /\ x.stack = s0
      BY <2>9
    <3>2. (\E x \in Toks(l) : x.kind = k0 /\ x.stack = s0) <=>
          (\E x \in T : x.kind = k0 /\ x.stack = s0)
      BY <2>1
    <3>. QED  BY <3>1, <3>2
  <2>7. \A k0 : ShowsKind(l, k0) <=> \E x \in T : x.kind = k0
    <3> SUFFICES ASSUME NEW k0
                 PROVE  ShowsKind(l, k0) <=> \E x \in T : x.kind = k0
      OBVIOUS
    <3>1. ShowsKind(l, k0) <=> \E x \in Toks(l) : x.kind = k0
      BY <2>9
    <3>2. (\E x \in Toks(l) : x.kind = k0) <=> (\E x \in T : x.kind = k0)
      BY <2>1
    <3>. QED  BY <3>1, <3>2
  <2>8. ~ShowsKind(l, "kernel") /\ ~ShowsKind(l, "missed_kernel")
    <3>1. ~\E x \in T : x.kind = "kernel"
      BY <2>3
    <3>2. ~\E x \in T : x.kind = "missed_kernel"
      BY <2>3
    <3>. QED  BY <3>1, <3>2, <2>7
  <2>4. SideShown(l, opts.user, r.us, r.uid, "user", "missed_user")
    BY <1>3, <2>3, <2>6, <2>7, Zenon DEF SideShown
  <2>5. SideShown(l, opts.kernel, r.ks, r.kid, "kernel", "missed_kernel")
    BY <1>1, <1>3, <2>8, Zenon DEF SideShown
  <2>. QED  BY <2>0, <2>4, <2>5 DEF ShownOK
<1>4. CASE opts.kernel
  <2> DEFINE T == {Tok("name")} \cup
                  Toks(IF StackIdErr(r.kid) THEN <<Tok("missed_kernel")>>
                       ELSE Frames("kernel", TRUE, r.kid))
  <2>0. PICK l : l = Lines(r)
    OBVIOUS
  <2>1. Toks(l) = T
    BY <2>0, <1>1, <1>4, LinesToks DEF KernelPart
  <2>2. SideOK(stackmap, TRUE, r.ks, r.kid)
    BY <1>4 DEF RecOK
  <2>3. /\ r.ks # NoStack => (\E x \in T : x.kind = "kernel" /\ x.stack = r.ks) \/
                             (\E x \in T : x.kind = "missed_kernel")
        /\ (\E x \in T : x.kind = "missed_kernel") => r.kid \in {-EEXIST, -ENOMEM}
        /\ \A x \in T : x.kind \in {"name", "kernel", "missed_kernel"}
    BY <1>1, <1>2, <2>2, PartShown
  <2>9. /\ \A k0, s0 : Shows(l, k0, s0) <=>
                        \E x \in Toks(l) : x.kind = k0 /\ x.stack = s0
        /\ \A k0 : ShowsKind(l, k0) <=> \E x \in Toks(l) : x.kind = k0
    BY DEF Shows, ShowsKind, Toks
  <2>6. \A k0, s0 : Shows(l, k0, s0) <=> \E x \in T : x.kind = k0 /\ x.stack = s0
    <3> SUFFICES ASSUME NEW k0, NEW s0
                 PROVE  Shows(l, k0, s0) <=> \E x \in T : x.kind = k0 /\ x.stack = s0
      OBVIOUS
    <3>1. Shows(l, k0, s0) <=> \E x \in Toks(l) : x.kind = k0 /\ x.stack = s0
      BY <2>9
    <3>2. (\E x \in Toks(l) : x.kind = k0 /\ x.stack = s0) <=>
          (\E x \in T : x.kind = k0 /\ x.stack = s0)
      BY <2>1
    <3>. QED  BY <3>1, <3>2
  <2>7. \A k0 : ShowsKind(l, k0) <=> \E x \in T : x.kind = k0
    <3> SUFFICES ASSUME NEW k0
                 PROVE  ShowsKind(l, k0) <=> \E x \in T : x.kind = k0
      OBVIOUS
    <3>1. ShowsKind(l, k0) <=> \E x \in Toks(l) : x.kind = k0
      BY <2>9
    <3>2. (\E x \in Toks(l) : x.kind = k0) <=> (\E x \in T : x.kind = k0)
      BY <2>1
    <3>. QED  BY <3>1, <3>2
  <2>8. ~ShowsKind(l, "user") /\ ~ShowsKind(l, "missed_user")
    <3>1. ~\E x \in T : x.kind = "user"
      BY <2>3
    <3>2. ~\E x \in T : x.kind = "missed_user"
      BY <2>3
    <3>. QED  BY <3>1, <3>2, <2>7
  <2>4. SideShown(l, opts.kernel, r.ks, r.kid, "kernel", "missed_kernel")
    BY <1>4, <2>3, <2>6, <2>7, Zenon DEF SideShown
  <2>5. SideShown(l, opts.user, r.us, r.uid, "user", "missed_user")
    BY <1>1, <1>4, <2>8, Zenon DEF SideShown
  <2>. QED  BY <2>0, <2>4, <2>5 DEF ShownOK
<1>. QED  BY <1>3, <1>4

-----------------------------------------------------------------------------
(***************************************************************************)
(* The inductive invariant RInv.                                           *)
(***************************************************************************)

LEMMA InitRInv == Init => RInv
<1> SUFFICES ASSUME Init PROVE RInv
  OBVIOUS
<1>1. TypeOK
  BY InitTypeOK
<1>2. \A i \in DOMAIN buf : RecOK(stackmap, opts, buf[i])
  BY DEF Init
<1>3. ShownAsRequested
  BY DEF Init, ShownAsRequested
<1>. QED  BY <1>1, <1>2, <1>3 DEF RInv

\* The records still buffered keep their ids when the map only grows.
LEMMA BufKept ==
  ASSUME TypeOK, \A i \in DOMAIN buf : RecOK(stackmap, opts, buf[i]),
         NEW map2, Keeps(stackmap, map2)
  PROVE  \A i \in DOMAIN buf : RecOK(map2, opts, buf[i])
<1> SUFFICES ASSUME NEW i \in DOMAIN buf PROVE RecOK(map2, opts, buf[i])
  OBVIOUS
<1>1. stackmap \in StackMapType /\ buf[i] \in Rec
  BY DEF TypeOK, StackMapType
<1>2. buf[i].us \in Stacks \cup {NoStack} /\ buf[i].ks \in Stacks \cup {NoStack}
  BY <1>1 DEF Rec
<1>. QED  BY <1>1, <1>2, SideKept DEF RecOK

\* A step that prints nothing and keeps the options keeps what was printed
\* shown as requested.
LEMMA ShownKept ==
  ASSUME ShownAsRequested, out' = out, opts' = opts
  PROVE  ShownAsRequested'
<1>1. \A i \in DOMAIN out : ShownOK(opts, out[i].rec, out[i].lines)
  BY ShownIs
<1>2. \A i \in DOMAIN out' : ShownOK(opts', out'[i].rec, out'[i].lines)
  BY <1>1
<1>. QED  BY <1>2, ShownIs

\* trace_return's captures: the new record's ids name its stacks in the
\* map after both get_stackid calls, and the older records keep theirs.
LEMMA SubmitRInv ==
  ASSUME RInv, PrintableScope, NEW us \in UserStacks \cup {NoStack},
         NEW ks \in KernelStacks \cup {NoStack}, Submit(us, ks)
  PROVE  RInv'
<1> DEFINE u == IF opts.user THEN Capture(stackmap, us, UserGetCompiled(opts))
                ELSE [id |-> 0, map |-> stackmap]
           k == IF opts.kernel THEN Capture(u.map, ks, KernelGetCompiled(opts))
                ELSE [id |-> 0, map |-> u.map]
           rec == [us |-> us, ks |-> ks, uid |-> u.id, kid |-> k.id]
<1>1. /\ opts \in [user : BOOLEAN, kernel : BOOLEAN, folded : BOOLEAN]
      /\ ~(opts.user /\ opts.kernel)
      /\ stackmap \in StackMapType /\ buf \in Seq(Rec)
  BY DEF RInv, TypeOK, StackMapType, PrintableScope
<1>2. us \in Stacks \cup {NoStack} /\ ks \in Stacks \cup {NoStack}
  OBVIOUS
<1>3. u.map \in StackMapType /\ Keeps(stackmap, u.map)
  BY <1>1, <1>2, CaptureType DEF UserGetCompiled, Keeps
<1>4. k.map \in StackMapType /\ Keeps(u.map, k.map)
  BY <1>1, <1>2, <1>3, CaptureType DEF KernelGetCompiled, Keeps
<1>5. stackmap' = k.map /\ buf' = Append(buf, rec) /\ UNCHANGED <<opts, out>>
  BY DEF Submit
<1>6. SideOK(k.map, opts.user, us, u.id)
  <2>1. CASE opts.user
    <3>1. u = Capture(stackmap, us, TRUE)
      BY <2>1 DEF UserGetCompiled
    <3>2. SideOK(u.map, TRUE, us, u.id)
      BY <1>1, <1>2, <3>1, CaptureOK
    <3>3. SideOK(k.map, TRUE, us, u.id)
      BY <1>4, <3>2 DEF SideOK, Keeps
    <3>. QED  BY <2>1, <3>3, Zenon
  <2>4. CASE ~opts.user
    BY <2>4 DEF SideOK
  <2>. QED  BY <1>1, <2>1, <2>4
<1>7. SideOK(k.map, opts.kernel, ks, k.id)
  <2>1. CASE opts.kernel
    <3>1. k = Capture(u.map, ks, TRUE)
      BY <1>1, <2>1 DEF KernelGetCompiled
    <3>. QED  BY <1>2, <1>3, <2>1, <3>1, CaptureOK
  <2>3. CASE ~opts.kernel
    BY <2>3 DEF SideOK
  <2>. QED  BY <1>1, <2>1, <2>3
<1>8. RecOK(stackmap', opts', rec)
  BY <1>5, <1>6, <1>7 DEF RecOK
<1>9. \A i \in DOMAIN buf : RecOK(stackmap', opts', buf[i])
  BY <1>3, <1>4, <1>5, KeepsTrans, BufKept DEF RInv
<1>10. \A i \in DOMAIN buf' : RecOK(stackmap', opts', buf'[i])
  <2> SUFFICES ASSUME NEW i \in DOMAIN buf'
               PROVE  RecOK(stackmap', opts', buf'[i])
    OBVIOUS
  <2>1. CASE i \in DOMAIN buf
    <3>1. buf'[i] = buf[i]
      BY <1>1, <1>5, <2>1
    <3>. QED  BY <1>9, <2>1, <3>1
  <2>2. CASE i = Len(buf) + 1
    <3>1. buf'[i] = rec
      BY <1>1, <1>5, <2>2
    <3>. QED  BY <1>8, <3>1
  <2>. QED  BY <1>1, <1>5, <2>1, <2>2
<1>11. TypeOK'
  BY SubmitTypeOK DEF RInv
<1>12. ShownAsRequested'
  BY <1>5, ShownKept DEF RInv
<1>. QED  BY <1>10, <1>11, <1>12 DEF RInv

\* print_event prints the oldest record; the rest stay buffered.
LEMMA PrintEventRInv ==
  ASSUME RInv, PrintableScope, PrintEvent
  PROVE  RInv'
<1> DEFINE r == Head(buf)
<1>1. buf \in Seq(Rec) /\ buf # <<>> /\ out \in Seq([rec : Rec, lines : Seq(Token)])
  BY DEF RInv, TypeOK, PrintEvent
<1>2. r \in Rec /\ RecOK(stackmap, opts, r)
  BY <1>1 DEF RInv
<1>3. ShownOK(opts, r, Lines(r))
  BY <1>2, LinesShown DEF RInv, PrintEvent
<1>4. out' = Append(out, [rec |-> r, lines |-> Lines(r)])
      /\ buf' = Tail(buf) /\ UNCHANGED <<opts, stackmap>>
  BY DEF PrintEvent, Lines
<1>5. \A i \in DOMAIN out : ShownOK(opts, out[i].rec, out[i].lines)
  BY ShownIs DEF RInv
<1>6. \A i \in DOMAIN out' : ShownOK(opts', out'[i].rec, out'[i].lines)
  BY <1>1, <1>3, <1>4, <1>5
<1>7. \A i \in DOMAIN buf' : RecOK(stackmap', opts', buf'[i])
  BY <1>1, <1>4 DEF RInv
<1>8. TypeOK'
  BY NextTypeOK DEF RInv, Next
<1>. QED  BY <1>6, <1>7, <1>8, ShownIs DEF RInv

LEMMA NextRInv ==
  ASSUME PrintableScope
  PROVE  RInv /\ [Next]_vars => RInv'
<1> SUFFICES ASSUME RInv, [Next]_vars PROVE RInv'
  OBVIOUS
<1>1. CASE \E us \in UserStacks \cup {NoStack}, ks \in KernelStacks \cup {NoStack} :
             Submit(us, ks)
  BY <1>1, SubmitRInv
<1>2. CASE PrintEvent
  BY <1>2, PrintEventRInv
<1>3. CASE PrintLatencyOnly
  <2>1. TypeOK'
    BY <1>3, NextTypeOK DEF RInv, Next
  <2>2. buf \in Seq(Rec) /\ buf # <<>>
    BY <1>3 DEF RInv, TypeOK, PrintLatencyOnly
  <2>3. \A i \in DOMAIN buf' : RecOK(stackmap', opts', buf'[i])
    <3> SUFFICES ASSUME NEW i \in DOMAIN buf'
                 PROVE  RecOK(stackmap', opts', buf'[i])
      OBVIOUS
    <3>1. i + 1 \in DOMAIN buf /\ buf'[i] = buf[i + 1]
      BY <1>3, <2>2 DEF PrintLatencyOnly
    <3>2. stackmap' = stackmap /\ opts' = opts
      BY <1>3 DEF PrintLatencyOnly
    <3>. QED  BY <3>1, <3>2 DEF RInv
  <2>4. ShownAsRequested'
    <3>1. out' = out /\ opts' = opts
      BY <1>3 DEF PrintLatencyOnly
    <3>. QED  BY <3>1, ShownKept DEF RInv
  <2>. QED  BY <2>1, <2>3, <2>4 DEF RInv
<1>4. CASE Finished \/ UNCHANGED vars
  <2>1. opts' = opts /\ stackmap' = stackmap /\ buf' = buf /\ out' = out
    BY <1>4 DEF Finished, vars
  <2>2. TypeOK'
    BY <2>1 DEF RInv, TypeOK
  <2>3. \A i \in DOMAIN buf' : RecOK(stackmap', opts', buf'[i])
    BY <2>1 DEF RInv
  <2>4. ShownAsRequested'
    BY <2>1, ShownKept DEF RInv
  <2>. QED  BY <2>2, <2>3, <2>4 DEF RInv
<1>. QED  BY <1>1, <1>2, <1>3, <1>4 DEF Next

\* When -U and -K are not given together and -K only with -f (the option
\* sets print_stack handles without raising), print_stack shows the stacks
\* asked for: the user or kernel stack of a call that had one, or the
\* side's placeholder only for a get_stackid that failed, and nothing of
\* the side not asked for.  It holds because get_stackid without
\* BPF_F_REUSE_STACKID never rebinds a bucket between trace_return and
\* print_event.
THEOREM StacksShownAsRequested ==
  ASSUME PrintableScope
  PROVE  Spec => []ShownAsRequested
<1>1. RInv => ShownAsRequested
  BY DEF RInv
<1>. QED  BY <1>1, InitRInv, NextRInv, PTL DEF Spec

=============================================================================
