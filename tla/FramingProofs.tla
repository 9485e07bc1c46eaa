----------------------------- MODULE FramingProofs -----------------------------
(***************************************************************************)
(* For any number of threads, any messages, any codec that satisfies       *)
(* CodecAssumption and any size of the kernel's buffer: frame boundaries   *)
(* are never lost, and what is received is what was sent, in order.        *)
(***************************************************************************)
EXTENDS Framing, TLAPS

\* The number of bytes up to the end of the n-th frame.
End(n) == IF n = 0 THEN 0 ELSE at[n] + Len(Frame(log[n]))

\* The frames lie on the wire one after the other, as far as it goes.
Laid ==
  /\ Len(at) = Len(log)
  /\ \A n \in 1..Len(log) : at[n] = End(n - 1)
  /\ Len(wire) <= End(Len(log))
  /\ \A n \in 1..Len(log) : \A j \in 1..Len(Frame(log[n])) :
       at[n] + j <= Len(wire) => wire[at[n] + j] = Frame(log[n])[j]

\* All frames but the last are on the wire whole, and what is missing of the
\* last is what the thread that holds write_mu_ has yet to write.
Written ==
  /\ \A n \in 1..(Len(log) - 1) : End(n) <= Len(wire)
  /\ \A w \in Writers : pending[w] # <<>> => lock = w
  /\ lock = NoOne => Len(wire) = End(Len(log))
  /\ lock # NoOne =>
       /\ Len(log) > 0
       /\ Len(wire) + Len(pending[lock]) = End(Len(log))
       /\ Len(pending[lock]) <= Len(Frame(log[Len(log)]))
       /\ \A j \in 1..Len(pending[lock]) :
            pending[lock][j]
              = Frame(log[Len(log)])[Len(Frame(log[Len(log)])) - Len(pending[lock]) + j]

\* The receiver is inside the frame that follows the ones it has returned.
Placed ==
  /\ Len(delivered) <= Len(log)
  /\ \A n \in 1..Len(delivered) : delivered[n] = log[n]
  /\ base = End(Len(delivered))
  /\ base <= got /\ got <= target
  /\ stage = "header" => target = base + HeaderSize
  /\ stage = "content" =>
       /\ base + HeaderSize <= got
       /\ Len(delivered) < Len(log)
       /\ target = base + Len(Frame(log[Len(delivered) + 1]))

IInv ==
  /\ TypeOK
  /\ NeverMisread
  /\ reading # "closed" => Laid /\ Placed /\ (writing = "open" => Written)

LEMMA InitInv == Init => IInv
  BY SizeAssumption DEF Init, IInv, TypeOK, NeverMisread, Laid, Placed, Written, End

\* The bytes of a slice of the wire that lies within the frame being received
\* are the bytes of that frame.
LEMMA SliceOfFrame ==
  ASSUME IInv, reading # "closed", NEW a \in Nat, NEW n \in Nat,
         Len(delivered) < Len(log),
         a + n <= Len(Frame(log[Len(delivered) + 1])),
         base + a + n <= Len(wire)
  PROVE  Slice(wire, base + a, n) = Slice(Frame(log[Len(delivered) + 1]), a, n)
<1> DEFINE d == Len(delivered) + 1
           F == Frame(log[d])
<1>0. /\ log \in Seq(Messages) /\ delivered \in Seq(Messages) /\ at \in Seq(Nat)
      /\ wire \in Seq(Nat) /\ base \in Nat /\ Len(at) = Len(log)
  BY DEF IInv, TypeOK, Laid
<1>1. d \in 1..Len(log) /\ log[d] \in Messages
  BY <1>0
<1>2. F \in Seq(Nat)
  BY <1>1, CodecAssumption
<1>3. at[d] = base
  <2>1. at[d] = End(d - 1) /\ base = End(Len(delivered))
    BY <1>1 DEF IInv, Laid, Placed
  <2> QED BY <2>1, <1>0
<1>4. ASSUME NEW i \in 1..n PROVE wire[base + a + i] = F[a + i]
  <2>1. a + i \in 1..Len(F) /\ at[d] + (a + i) <= Len(wire)
    BY <1>0, <1>2, <1>3, SMTT(30)
  <2>2. wire[at[d] + (a + i)] = F[a + i]
    BY <2>1, <1>1 DEF IInv, Laid
  <2> QED BY <2>2, <1>3, <1>0
<1> QED BY <1>4 DEF Slice

\* The types of the variables, and of the frames of the messages sent.
Typed ==
  /\ log \in Seq(Messages) /\ delivered \in Seq(Messages) /\ at \in Seq(Nat)
  /\ wire \in Seq(Nat) /\ base \in Nat /\ target \in Nat /\ got \in Nat /\ got <= Len(wire)
  /\ pending \in [Writers -> Seq(Nat)] /\ lock \in Writers \cup {NoOne}
  /\ Len(wire) \in Nat /\ Len(log) \in Nat /\ Len(delivered) \in Nat
  /\ \A n \in 1..Len(log) :
       /\ log[n] \in Messages /\ Frame(log[n]) \in Seq(Nat)
       /\ Len(Frame(log[n])) \in Nat /\ Len(Frame(log[n])) > HeaderSize

LEMMA Types == IInv => Typed
<1> SUFFICES ASSUME IInv PROVE Typed
  OBVIOUS
<1>1. /\ log \in Seq(Messages) /\ delivered \in Seq(Messages) /\ at \in Seq(Nat)
      /\ wire \in Seq(Nat) /\ base \in Nat /\ target \in Nat /\ got \in 0..Len(wire)
      /\ pending \in [Writers -> Seq(Nat)] /\ lock \in Writers \cup {NoOne}
  BY DEF IInv, TypeOK
<1>2. \A n \in 1..Len(log) : log[n] \in Messages
  BY <1>1
<1> QED BY <1>1, <1>2, CodecAssumption DEF Typed

\* The two parts of t cut after n elements, the first of them put after s.
Cut(s, t, n, u, v) ==
  /\ u \in Seq(Nat) /\ Len(u) = Len(s) + n
  /\ \A j \in 1..Len(s) : u[j] = s[j]
  /\ \A j \in 1..n : u[Len(s) + j] = t[j]
  /\ v \in Seq(Nat) /\ Len(v) = Len(t) - n
  /\ \A j \in 1..(Len(t) - n) : v[j] = t[n + j]

LEMMA SameOffset ==
  \A j, a, f, w, p, i \in Nat : w + p = a + f /\ a + j = w + i => f - p + i = j
  OBVIOUS

LEMMA CutFacts ==
  \A s, t \in Seq(Nat) : \A n \in 1..Len(t) :
    Cut(s, t, n, s \o SubSeq(t, 1, n), SubSeq(t, n + 1, Len(t)))
<1> TAKE s, t \in Seq(Nat)
<1> TAKE n \in 1..Len(t)
<1>1. SubSeq(t, 1, n) \in Seq(Nat) /\ Len(SubSeq(t, 1, n)) = n
  OBVIOUS
<1>2. \A j \in 1..n : SubSeq(t, 1, n)[j] = t[j]
  OBVIOUS
<1>3. SubSeq(t, n + 1, Len(t)) \in Seq(Nat) /\ Len(SubSeq(t, n + 1, Len(t))) = Len(t) - n
  OBVIOUS
<1>4. \A j \in 1..(Len(t) - n) : SubSeq(t, n + 1, Len(t))[j] = t[n + j]
  BY SMTT(30)
<1>5. s \o SubSeq(t, 1, n) \in Seq(Nat) /\ Len(s \o SubSeq(t, 1, n)) = Len(s) + n
  BY <1>1
<1>6. \A j \in 1..Len(s) : (s \o SubSeq(t, 1, n))[j] = s[j]
  BY <1>1
<1>7. \A j \in 1..n : (s \o SubSeq(t, 1, n))[Len(s) + j] = t[j]
  BY <1>1, <1>2
<1> QED BY <1>3, <1>4, <1>5, <1>6, <1>7 DEF Cut

\* Handing a message to write_all puts its frame after the others.
LEMMA SendStep ==
  ASSUME IInv, NEW w \in Writers, NEW m \in Messages, send_message(w, m)
  PROVE  IInv'
<1>0. Typed
  BY Types
<1>n. /\ Len(wire) \in Nat /\ Len(log) \in Nat /\ Len(delivered) \in Nat
      /\ base \in Nat /\ target \in Nat /\ got \in Nat /\ got <= Len(wire)
      /\ HeaderSize \in Nat /\ HeaderSize > 0 /\ Limit \in Nat /\ NoOne \notin Writers
  BY <1>0, SizeAssumption DEF Typed
<1>f. \A k \in 1..Len(log) :
        /\ log[k] \in Messages /\ Frame(log[k]) \in Seq(Nat)
        /\ Len(Frame(log[k])) \in Nat /\ Len(Frame(log[k])) > HeaderSize
  BY <1>0 DEF Typed
<1> USE <1>n
<1>1. Frame(m) \in Seq(Nat) /\ Len(Frame(m)) \in Nat /\ Len(Frame(m)) > HeaderSize
  BY CodecAssumption
<1>2. /\ log' \in Seq(Messages) /\ at' \in Seq(Nat) /\ pending' \in [Writers -> Seq(Nat)]
      /\ Len(log') = Len(log) + 1 /\ log'[Len(log')] = m
      /\ \A n \in 1..Len(log) : log'[n] = log[n]
      /\ Len(at') = Len(at) + 1
      /\ \A n \in 1..Len(at) : at'[n] = at[n]
      /\ at'[Len(at) + 1] = Len(wire)
      /\ wire' = wire /\ pending'[w] = Frame(m) /\ lock' = w
      /\ writing' = writing /\ writing = "open" /\ reading' = reading
      /\ UNCHANGED receiverVars
  BY <1>0, <1>1 DEF send_message, Typed
<1>3. TypeOK'
  BY <1>2 DEF IInv, TypeOK, receiverVars
<1>4. NeverMisread'
  <2>1. why' = why
    BY <1>2 DEF receiverVars
  <2>2. ASSUME NEW n \in 1..Len(log), Len(Frame(log[n])) - HeaderSize > Limit
        PROVE  n \in 1..Len(log') /\ Len(Frame(log'[n])) - HeaderSize > Limit
    BY <1>2, <2>2
  <2> QED BY <2>1, <2>2 DEF IInv, NeverMisread
<1>5. ASSUME reading # "closed" PROVE Laid' /\ Placed' /\ Written'
  <2>0. Laid /\ Placed /\ Written
    BY <1>5, <1>2 DEF IInv
  <2>1. \A n \in 0..Len(log) : End(n)' = End(n)
    BY <1>2, <2>0 DEF End, Laid
  <2>2. Len(wire) = End(Len(log)) /\ lock = NoOne
    BY <2>0 DEF Written, send_message
  <2>3. End(Len(log))' = Len(wire) + Len(Frame(m))
    <3>1. at'[Len(log')] = Len(wire) /\ Len(log') # 0
      BY <1>2, <2>0 DEF Laid
    <3> QED BY <3>1, <1>2 DEF End
  <2>4. Laid'
    <3>1. (Len(at) = Len(log))'
      BY <1>2, <2>0 DEF Laid
    <3>2. ASSUME NEW n \in 1..Len(log') PROVE at'[n] = End(n - 1)'
      <4>1. CASE n \in 1..Len(log)
        BY <4>1, <1>2, <2>0, <2>1 DEF Laid
      <4>2. CASE n = Len(log')
        BY <4>2, <1>2, <2>0, <2>1, <2>2 DEF Laid
      <4> QED BY <4>1, <4>2, <1>2
    <3>3. (Len(wire) <= End(Len(log)))'
      BY <2>3, <1>2, <1>1
    <3>4. ASSUME NEW n \in 1..Len(log'), NEW j \in 1..Len(Frame(log'[n])),
                 at'[n] + j <= Len(wire')
          PROVE  wire'[at'[n] + j] = Frame(log'[n])[j]
      <4>1. CASE n \in 1..Len(log)
        <5>1. log'[n] = log[n] /\ at'[n] = at[n] /\ wire' = wire
          BY <4>1, <1>2, <2>0, Zenon DEF Laid
        <5> QED BY <4>1, <3>4, <5>1, <2>0, Zenon DEF Laid
      <4>2. CASE n = Len(log')
        <5>1. at'[n] = Len(wire)
          BY <4>2, <1>2, <2>0 DEF Laid
        <5>2. j > 0 /\ j \in Nat
          BY <4>2, <1>1, <1>2
        <5> QED BY <5>1, <5>2, <3>4, <1>2
      <4> QED BY <4>1, <4>2, <1>2
    <3> QED BY <3>1, <3>2, <3>3, <3>4 DEF Laid
  <2>5. Placed'
    <3>1. ASSUME NEW n \in 1..Len(delivered) PROVE delivered[n] = log'[n]
      <4>1. n \in 1..Len(log) /\ delivered[n] = log[n]
        BY <2>0 DEF Placed
      <4> QED BY <4>1, <1>2
    <3>2. ASSUME stage = "content" PROVE log'[Len(delivered) + 1] = log[Len(delivered) + 1]
      <4>1. Len(delivered) + 1 \in 1..Len(log)
        BY <3>2, <2>0, SMTT(30) DEF Placed
      <4> QED BY <4>1, <1>2
    <3>3. End(Len(delivered))' = End(Len(delivered))
      BY <1>2, <2>0, <2>1 DEF Placed, receiverVars
    <3>4. Len(delivered) <= Len(log') /\ (stage = "content" => Len(delivered) < Len(log'))
      BY <1>2, <2>0 DEF Placed
    <3>5. UNCHANGED <<got, base, stage, target, delivered>>
      BY <1>2 DEF receiverVars
    <3> QED BY <3>1, <3>2, <3>3, <3>4, <3>5, <2>0 DEF Placed
  <2>6. Written'
    <3>1. ASSUME NEW n \in 1..(Len(log') - 1) PROVE End(n)' <= Len(wire')
      <4>1. End(n)' = End(n)
        BY <1>2, <2>1
      <4>2. CASE n = Len(log)
        BY <4>1, <4>2, <2>2, <1>2
      <4>3. CASE n \in 1..(Len(log) - 1)
        BY <4>1, <4>3, <2>0, <1>2 DEF Written
      <4> QED BY <4>2, <4>3, <1>2
    <3>2. ASSUME NEW v \in Writers, pending'[v] # <<>> PROVE lock' = v
      BY <3>2, <2>2, <2>0, <1>2 DEF Written, send_message
    <3>3. lock' # NoOne
      BY <1>2
    <3>4. Len(wire') + Len(pending'[lock']) = End(Len(log))' /\ Len(log') > 0
      BY <1>2, <2>3
    <3>5. ASSUME NEW j \in 1..Len(pending'[lock'])
          PROVE  /\ Len(pending'[lock']) <= Len(Frame(log'[Len(log')]))
                 /\ pending'[lock'][j]
                      = Frame(log'[Len(log')])[Len(Frame(log'[Len(log')])) - Len(pending'[lock']) + j]
      <4>1. pending'[lock'] = Frame(m) /\ log'[Len(log')] = m
        BY <1>2
      <4> QED BY <4>1, <1>1
    <3>6. Len(pending'[lock']) <= Len(Frame(log'[Len(log')]))
      BY <1>1, <1>2
    <3> QED BY <3>1, <3>2, <3>3, <3>4, <3>5, <3>6, Zenon DEF Written
  <2> QED BY <2>4, <2>5, <2>6
<1> QED BY <1>2, <1>3, <1>4, <1>5 DEF IInv

\* The bytes send accepts are the next bytes of the frame being written.
LEMMA WriteStep ==
  ASSUME IInv, NEW w \in Writers, write_some(w)
  PROVE  IInv'
<1>0. Typed
  BY Types
<1>n. /\ Len(wire) \in Nat /\ Len(log) \in Nat /\ Len(delivered) \in Nat
      /\ base \in Nat /\ target \in Nat /\ got \in Nat /\ got <= Len(wire)
      /\ HeaderSize \in Nat /\ HeaderSize > 0 /\ Limit \in Nat /\ NoOne \notin Writers
  BY <1>0, SizeAssumption DEF Typed
<1>f. \A k \in 1..Len(log) :
        /\ log[k] \in Messages /\ Frame(log[k]) \in Seq(Nat)
        /\ Len(Frame(log[k])) \in Nat /\ Len(Frame(log[k])) > HeaderSize
  BY <1>0 DEF Typed
<1> USE <1>n
<1>1. PICK n \in 1..Len(pending[w]) :
        /\ wire' = wire \o SubSeq(pending[w], 1, n)
        /\ pending' = [pending EXCEPT ![w] = SubSeq(@, n + 1, Len(@))]
  BY Zenon DEF write_some
<1>2. /\ writing = "open" /\ pending[w] # <<>>
      /\ UNCHANGED <<lock, log, at, writing, reading, got, base, stage, target, why, delivered>>
  BY DEF write_some, receiverVars
<1>3. pending[w] \in Seq(Nat) /\ Len(pending[w]) \in Nat /\ n \in Nat /\ n > 0
      /\ wire \in Seq(Nat) /\ n <= Len(pending[w])
  BY <1>0 DEF Typed
<1>4. Cut(wire, pending[w], n, wire', pending'[w])
  <2>1. pending'[w] = SubSeq(pending[w], n + 1, Len(pending[w]))
    BY <1>0, <1>1 DEF Typed
  <2>2. Cut(wire, pending[w], n, wire \o SubSeq(pending[w], 1, n),
            SubSeq(pending[w], n + 1, Len(pending[w])))
    BY ONLY <1>3, CutFacts, n \in 1..Len(pending[w]), Zenon
  <2> QED BY ONLY <2>1, <2>2, <1>1
<1>5. /\ \A v \in Writers \ {w} : pending'[v] = pending[v]
      /\ pending' \in [Writers -> Seq(Nat)]
  <2>1. pending \in [Writers -> Seq(Nat)] /\ pending'[w] \in Seq(Nat)
    BY <1>0, <1>4 DEF Typed, Cut
  <2>2. \A v \in Writers \ {w} : pending'[v] = pending[v]
    BY <2>1, <1>1
  <2>3. pending' = [pending EXCEPT ![w] = pending'[w]]
    BY <2>1, <1>1
  <2> QED BY <2>1, <2>2, <2>3, Zenon
<1>6. TypeOK'
  <2>1. got' \in 0..Len(wire')
    BY <1>2, <1>3, <1>4 DEF Cut
  <2>2. wire' \in Seq(Nat)
    BY <1>4 DEF Cut
  <2> QED BY <2>1, <2>2, <1>2, <1>5 DEF IInv, TypeOK
<1>7. NeverMisread'
  BY <1>2 DEF IInv, NeverMisread
<1>8. ASSUME reading # "closed" PROVE Laid' /\ Placed' /\ Written'
  <2>0. Laid /\ Placed /\ Written
    BY <1>8, <1>2 DEF IInv
  <2>1. \A k : End(k)' = End(k)
    BY <1>2 DEF End
  <2> DEFINE last == Len(log)
             F == Frame(log[last])
             p == pending[w]
             q == pending'[w]
  <2>2. /\ lock = w /\ last \in 1..Len(log)
        /\ Len(wire) + Len(p) = End(last)
        /\ Len(p) <= Len(F)
        /\ \A j \in 1..Len(p) : p[j] = F[Len(F) - Len(p) + j]
    <3>1. lock = w /\ lock # NoOne
      BY <2>0, <1>2 DEF Written
    <3>2. /\ Len(log) > 0 /\ Len(wire) + Len(pending[lock]) = End(Len(log))
          /\ Len(pending[lock]) <= Len(Frame(log[Len(log)]))
          /\ \A j \in 1..Len(pending[lock]) :
               pending[lock][j]
                 = Frame(log[Len(log)])[Len(Frame(log[Len(log)])) - Len(pending[lock]) + j]
      BY <3>1, <2>0, Zenon DEF Written
    <3>3. last \in 1..Len(log)
      BY <3>2
    <3> QED BY <3>1, <3>2, <3>3, Zenon
  <2>3. \A k \in 1..Len(log) : at[k] \in Nat /\ End(k) = at[k] + Len(Frame(log[k]))
    <3>1. at \in Seq(Nat) /\ Len(at) = Len(log)
      BY <1>0, <2>0 DEF Typed, Laid
    <3> QED BY <3>1 DEF End
  <2>4. Len(F) \in Nat /\ at[last] \in Nat /\ Len(wire) + Len(p) = at[last] + Len(F)
    BY <2>2, <2>3, <1>f, Zenon
  <2> HIDE DEF last, F, p, q
  <2>c. /\ Len(wire') = Len(wire) + n /\ Len(q) = Len(p) - n
        /\ \A j \in 1..Len(wire) : wire'[j] = wire[j]
        /\ \A j \in 1..n : wire'[Len(wire) + j] = p[j]
        /\ \A j \in 1..(Len(p) - n) : q[j] = p[n + j]
        /\ Len(p) \in Nat /\ n \in Nat /\ n > 0 /\ n <= Len(p)
    BY <1>3, <1>4 DEF Cut, p, q
  <2>d. /\ Len(wire') = Len(wire) + n /\ Len(q) = Len(p) - n
        /\ Len(p) \in Nat /\ n \in Nat /\ n > 0 /\ n <= Len(p)
    BY <2>c
  <2>5. Laid'
    <3>1. Len(wire') <= End(last)
      BY <2>2, <2>4, <2>c
    <3>2. ASSUME NEW k \in 1..Len(log), NEW j \in 1..Len(Frame(log[k])), at[k] + j <= Len(wire')
          PROVE  wire'[at[k] + j] = Frame(log[k])[j]
      <4>0. at[k] \in Nat /\ j \in Nat /\ j > 0 /\ j <= Len(Frame(log[k])) /\ Len(Frame(log[k])) \in Nat
        BY <2>3, <1>f
      <4>1. CASE at[k] + j <= Len(wire)
        <5>1. wire[at[k] + j] = Frame(log[k])[j]
          BY <4>1, <2>0 DEF Laid
        <5>2. at[k] + j \in 1..Len(wire)
          BY <4>0, <4>1
        <5> QED BY <5>1, <5>2, <2>c, Zenon
      <4>2. CASE at[k] + j > Len(wire)
        <5>1. k = last
          <6>1. ASSUME k \in 1..(Len(log) - 1) PROVE FALSE
            <7>1. at[k] + Len(Frame(log[k])) <= Len(wire)
              BY <6>1, <2>0, <2>3 DEF Written
            <7> QED BY <7>1, <4>0, <4>2
          <6> QED BY <6>1 DEF last
        <5> DEFINE i == at[last] + j - Len(wire)
        <5>2. i \in 1..n /\ at[last] + j = Len(wire) + i
          <6>1. at[last] \in Nat /\ at[last] + j <= Len(wire) + n /\ at[last] + j > Len(wire)
            BY <5>1, <4>0, <4>2, <3>2, <2>d
          <6> HIDE <1>n
          <6>2. Len(wire) \in Nat /\ n \in Nat /\ j \in Nat
            BY <1>n, <4>0, <2>d
          <6>3. \A x, y, z, u \in Nat : x + y <= z + u /\ x + y > z
                  => x + y - z \in 1..u /\ x + y = z + (x + y - z)
            OBVIOUS
          <6> QED BY <6>1, <6>2, <6>3, SMTT(30)
        <5> HIDE DEF i
        <5>3. wire'[at[last] + j] = p[i]
          BY <5>2, <2>c, Zenon
        <5>4. i \in 1..Len(p) /\ Len(F) - Len(p) + i = j
          <6>1. i \in Nat /\ i > 0 /\ i <= n
            BY <5>2, <2>d
          <6>3. i \in 1..Len(p)
            BY <6>1, <2>d
          <6>4. /\ j \in Nat /\ at[last] \in Nat /\ Len(F) \in Nat /\ Len(wire) \in Nat /\ Len(p) \in Nat /\ i \in Nat
                /\ Len(wire) + Len(p) = at[last] + Len(F) /\ at[last] + j = Len(wire) + i
            BY <6>1, <5>2, <4>0, <2>4, <2>d
          <6>5. Len(F) - Len(p) + i = j
            <7> DEFINE lw == Len(wire)  lf == Len(F)  lp == Len(p)  al == at[last]
            <7>1. /\ j \in Nat /\ al \in Nat /\ lf \in Nat /\ lw \in Nat /\ lp \in Nat /\ i \in Nat
                  /\ lw + lp = al + lf /\ al + j = lw + i
              BY <6>4
            <7> HIDE DEF lw, lf, lp, al
            <7>2. lf - lp + i = j
              BY ONLY <7>1, SameOffset
            <7> QED BY <7>2 DEF lf, lp
          <6> QED BY <6>3, <6>5
        <5>5. p[i] = F[Len(F) - Len(p) + i]
          BY <5>4, <2>2, Zenon
        <5> QED BY <5>1, <5>3, <5>4, <5>5 DEF F
      <4> QED BY <4>0, <4>1, <4>2
    <3> QED BY <3>1, <3>2, <2>0, <2>1, <1>2, Zenon DEF Laid, last
  <2>6. Placed'
    BY <2>0, <2>1, <1>2 DEF Placed
  <2>7. Written'
    <3>1. ASSUME NEW k \in 1..(Len(log) - 1) PROVE End(k)' <= Len(wire')
      <4>1. End(k) <= Len(wire)
        BY <2>0 DEF Written
      <4>2. End(k) \in Nat
        <5>1. k \in 1..Len(log)
          OBVIOUS
        <5>2. at[k] \in Nat /\ End(k) = at[k] + Len(Frame(log[k]))
          BY <5>1, <2>3
        <5>3. Len(Frame(log[k])) \in Nat
          BY <5>1, <1>f
        <5> QED BY <5>2, <5>3
      <4> QED BY <4>1, <4>2, <2>1, <2>d
    <3>2. ASSUME NEW v \in Writers, pending'[v] # <<>> PROVE lock' = v
      BY <3>2, <2>2, <2>0, <1>2, <1>5, Zenon DEF Written
    <3>3. Len(wire') + Len(q) = End(last) /\ Len(q) <= Len(F)
      BY <2>c, <2>2, <2>4
    <3>4. ASSUME NEW j \in 1..Len(q)
          PROVE  q[j] = F[Len(F) - Len(q) + j]
      <4>1. q[j] = p[n + j] /\ n + j \in 1..Len(p) /\ j \in Nat
        BY <2>c
      <4>2. p[n + j] = F[Len(F) - Len(p) + (n + j)]
        BY <4>1, <2>2
      <4>3. Len(F) - Len(p) + (n + j) = Len(F) - Len(q) + j
        BY <2>c, <2>4, <4>1, SMTT(30)
      <4> QED BY <4>1, <4>2, <4>3, Zenon
    <3>5. /\ lock' = w /\ w # NoOne /\ Len(log') > 0 /\ log' = log
          /\ End(Len(log))' = End(last) /\ Len(log') = Len(log)
      BY <2>1, <2>2, <1>2 DEF last
    <3> QED BY <3>1, <3>2, <3>3, <3>4, <3>5, Zenon DEF Written, q, F, last
  <2> QED BY <2>5, <2>6, <2>7
<1> QED BY <1>2, <1>6, <1>7, <1>8 DEF IInv

\* Steps of the sender that touch neither the wire nor the log.
LEMMA ReturnStep ==
  ASSUME IInv, NEW w \in Writers, send_returns(w) \/ send_fails(w)
  PROVE  IInv'
<1>0. Typed
  BY Types
<1>1. /\ lock' = NoOne
      /\ pending' = [pending EXCEPT ![w] = <<>>]
      /\ UNCHANGED <<wire, log, at, writing, reading, got, base, stage, target, why, delivered>>
  BY <1>0 DEF send_returns, send_fails, receiverVars, Typed
<1>2. pending' \in [Writers -> Seq(Nat)]
  BY <1>0, <1>1 DEF Typed
<1>3. TypeOK' /\ NeverMisread'
  BY <1>1, <1>2 DEF IInv, TypeOK, NeverMisread
<1>4. \A k : End(k)' = End(k)
  BY <1>1 DEF End
<1>5. ASSUME reading # "closed" PROVE Laid' /\ Placed'
  BY <1>5, <1>1, <1>4 DEF IInv, Laid, Placed
<1>6. ASSUME reading # "closed", writing = "open" PROVE Written'
  <2>0. Written /\ lock = w /\ pending[w] = <<>>
    BY <1>6 DEF IInv, send_returns, send_fails
  <2>1. lock # NoOne
    BY <2>0, SizeAssumption
  <2>2. Len(wire) = End(Len(log))
    <3>1. Len(wire) + Len(pending[lock]) = End(Len(log))
      BY <2>0, <2>1 DEF Written
    <3>2. Len(pending[lock]) = 0 /\ Len(wire) \in Nat
      BY <2>0, <1>0 DEF Typed
    <3> QED BY <3>1, <3>2
  <2>3. \A v \in Writers : pending'[v] = <<>>
    BY <2>0, <1>0, <1>1 DEF Written, Typed
  <2> QED BY <2>0, <2>2, <2>3, <1>1, <1>4 DEF Written
<1> QED BY <1>1, <1>3, <1>5, <1>6 DEF IInv

\* recv returns some of the bytes there are.
LEMMA ReadStep ==
  ASSUME IInv, read_some
  PROVE  IInv'
<1>0. Typed
  BY Types
<1>1. PICK n \in 1..(target - got) : got + n <= Len(wire) /\ got' = got + n
  BY DEF read_some
<1>2. UNCHANGED <<lock, pending, log, at, wire, base, stage, target, writing, reading, why, delivered>>
  BY DEF read_some, senderVars
<1>3. got' \in Nat /\ got <= got' /\ got' <= target /\ got' <= Len(wire)
  BY <1>0, <1>1 DEF Typed
<1>4. TypeOK' /\ NeverMisread'
  <2>1. got' \in 0..Len(wire')
    BY <1>0, <1>2, <1>3 DEF Typed
  <2> QED BY <2>1, <1>2 DEF IInv, TypeOK, NeverMisread
<1>5. \A k : End(k)' = End(k)
  BY <1>2 DEF End
<1>6. ASSUME reading # "closed" PROVE Laid' /\ Placed' /\ (writing = "open" => Written')
  <2>0. Laid /\ Placed /\ (writing = "open" => Written)
    BY <1>6 DEF IInv
  <2>1. Laid' /\ (writing = "open" => Written')
    BY <2>0, <1>2, <1>5, Zenon DEF Laid, Written
  <2>2. base <= got' /\ base + HeaderSize \in Nat /\ (base + HeaderSize <= got => base + HeaderSize <= got')
    BY <2>0, <1>0, <1>3, SizeAssumption, SMTT(30) DEF Placed, Typed
  <2>3. Placed'
    BY <2>0, <2>2, <1>2, <1>3, <1>5 DEF Placed
  <2> QED BY <2>1, <2>3
<1> QED BY <1>2, <1>4, <1>6 DEF IInv

\* An end that closes: what is left of the wire is as before.
LEMMA CloseStep ==
  ASSUME IInv, sender_closes
  PROVE  IInv'
<1>0. Typed
  BY Types
<1>1. PICK n \in got..Len(wire) : wire' = SubSeq(wire, 1, n)
  BY DEF sender_closes
<1>2. /\ UNCHANGED <<lock, pending, log, at, got, base, stage, target, reading, why, delivered>>
      /\ writing' = "closed"
  BY DEF sender_closes, senderVars, receiverVars
<1>3. /\ n \in Nat /\ n <= Len(wire) /\ got <= n /\ wire' \in Seq(Nat) /\ Len(wire') = n
      /\ \A j \in 1..n : wire'[j] = wire[j]
  BY <1>0, <1>1, SMTT(30) DEF Typed
<1>4. TypeOK' /\ NeverMisread'
  <2>1. got' \in 0..Len(wire')
    BY <1>0, <1>2, <1>3 DEF Typed
  <2> QED BY <2>1, <1>2, <1>3 DEF IInv, TypeOK, NeverMisread
<1>5. \A k : End(k)' = End(k)
  BY <1>2 DEF End
<1>6. ASSUME reading # "closed" PROVE Laid' /\ Placed'
  <2>0. Laid /\ Placed
    BY <1>6 DEF IInv
  <2>1. at \in Seq(Nat) /\ Len(wire) \in Nat
    BY <1>0 DEF Typed
  <2>2. ASSUME NEW k \in 1..Len(log), NEW j \in 1..Len(Frame(log[k])), at[k] + j <= Len(wire')
        PROVE  wire'[at[k] + j] = Frame(log[k])[j]
    <3>1. at[k] \in Nat /\ j \in Nat /\ j > 0
      BY <2>0, <2>1, <1>0, SMTT(30) DEF Laid, Typed
    <3>2. at[k] + j \in 1..n /\ at[k] + j <= Len(wire)
      <4>1. at[k] + j <= n
        BY <2>2, <1>3
      <4>2. n \in Nat /\ n <= Len(wire) /\ Len(wire) \in Nat
        BY <2>1, <1>3
      <4> QED BY ONLY <4>1, <4>2, <3>1, SMTT(30)
    <3> QED BY <3>2, <2>0, <1>3, Zenon DEF Laid
  <2>3. Len(wire') <= End(Len(log))
    <3>1. Len(wire) <= End(Len(log)) /\ End(Len(log)) \in Nat
      BY <2>0, <1>0 DEF Laid, End, Typed
    <3> QED BY <3>1, <2>1, <1>3
  <2> QED BY <2>0, <2>2, <2>3, <1>2, <1>5, Zenon DEF Laid, Placed
<1> QED BY <1>2, <1>4, <1>6 DEF IInv

\* When the bytes of a header have been read there is a frame to receive, and
\* they are its header.
LEMMA HeaderRead ==
  ASSUME IInv, reading # "closed", base + HeaderSize <= got
  PROVE  /\ Len(delivered) < Len(log)
         /\ Slice(wire, base, HeaderSize) = Slice(Frame(log[Len(delivered) + 1]), 0, HeaderSize)
<1>0. Typed /\ Laid /\ Placed
  BY Types DEF IInv
<1>1. /\ Len(delivered) \in Nat /\ Len(log) \in Nat /\ Len(wire) \in Nat /\ base \in Nat
      /\ got \in Nat /\ got <= Len(wire) /\ HeaderSize \in Nat /\ HeaderSize > 0
      /\ Len(delivered) <= Len(log) /\ base = End(Len(delivered)) /\ Len(wire) <= End(Len(log))
  BY <1>0, SizeAssumption DEF Typed, Laid, Placed
<1>2. Len(delivered) # Len(log)
  <2> SUFFICES ASSUME Len(delivered) = Len(log) PROVE FALSE
    OBVIOUS
  <2>1. Len(wire) <= base
    BY <1>1
  <2> QED BY <2>1, <1>1
<1>3. Len(delivered) < Len(log) /\ Len(delivered) + 1 \in 1..Len(log)
  BY <1>1, <1>2
<1>4. Len(Frame(log[Len(delivered) + 1])) \in Nat
      /\ Len(Frame(log[Len(delivered) + 1])) > HeaderSize
  BY <1>0, <1>3 DEF Typed
<1>5. 0 + HeaderSize <= Len(Frame(log[Len(delivered) + 1])) /\ base + 0 + HeaderSize <= Len(wire)
  BY <1>1, <1>4
<1>6. Slice(wire, base + 0, HeaderSize) = Slice(Frame(log[Len(delivered) + 1]), 0, HeaderSize)
  BY <1>1, <1>3, <1>5, SliceOfFrame
<1>7. base + 0 = base
  BY <1>1
<1> QED BY <1>3, <1>6, <1>7

\* recv_message stops: what it reports is harmless.
LEMMA FailStep ==
  ASSUME IInv, NEW error, reading = "open", recv_fails(error),
         \/ error = "connection closed"
         \/ /\ error = "frame too large"
            /\ \E n \in 1..Len(log) : Len(Frame(log[n])) - HeaderSize > Limit
  PROVE  IInv'
<1>1. /\ reading # "closed" /\ reading' = "failed" /\ why' = error
      /\ UNCHANGED <<lock, pending, log, at, wire, got, base, stage, target, writing, delivered>>
  BY DEF recv_fails, senderVars
<1>2. TypeOK'
  BY <1>1 DEF IInv, TypeOK
<1>3. NeverMisread'
  BY <1>1 DEF NeverMisread
<1>4. \A k : End(k)' = End(k)
  BY <1>1 DEF End
<1>5. Laid' /\ Placed' /\ (writing' = "open" => Written')
  BY <1>1, <1>4, Zenon DEF IInv, Laid, Placed, Written
<1> QED BY <1>2, <1>3, <1>5 DEF IInv

\* The process closes its socket: nothing is claimed of it any more.
LEMMA ReceiverCloseStep ==
  ASSUME IInv, receiver_closes
  PROVE  IInv'
<1>1. /\ reading' = "closed"
      /\ UNCHANGED <<lock, pending, log, at, wire, got, base, stage, target, writing, why, delivered>>
  BY DEF receiver_closes, senderVars, receiverVars
<1>2. TypeOK' /\ NeverMisread'
  BY <1>1 DEF IInv, TypeOK, NeverMisread
<1> QED BY <1>1, <1>2 DEF IInv

LEMMA HeaderStep ==
  ASSUME IInv, recv_header
  PROVE  IInv'
<1> DEFINE F == Frame(log[Len(delivered) + 1])
           len == LengthIn(Slice(wire, base, HeaderSize))
<1>0. Typed /\ Laid /\ Placed /\ reading = "open" /\ stage = "header" /\ got = target
  BY Types DEF IInv, recv_header
<1>1. /\ target = base + HeaderSize /\ base + HeaderSize <= got
      /\ base \in Nat /\ got \in Nat /\ HeaderSize \in Nat /\ target \in Nat
  BY <1>0, SizeAssumption DEF Placed, Typed
<1>2. /\ Len(delivered) < Len(log)
      /\ Slice(wire, base, HeaderSize) = Slice(F, 0, HeaderSize)
  BY <1>0, <1>1, HeaderRead
<1>3. Len(delivered) + 1 \in 1..Len(log)
  BY <1>0, <1>2 DEF Typed
<1>4. F \in Seq(Nat) /\ Len(F) \in Nat /\ Len(F) > HeaderSize /\ len = Len(F) - HeaderSize
  BY <1>0, <1>2, <1>3, CodecAssumption DEF Typed
<1> HIDE DEF F, len
<1>5. len \in Nat /\ len > 0
  BY <1>1, <1>4
<1>6. CASE len > Limit /\ recv_fails("frame too large")
  <2>1. \E n \in 1..Len(log) : Len(Frame(log[n])) - HeaderSize > Limit
    BY <1>3, <1>4, <1>6 DEF F
  <2> QED BY <1>0, <1>6, <2>1, FailStep
<1>7. CASE /\ stage' = "content" /\ target' = target + len
           /\ UNCHANGED <<senderVars, wire, got, base, writing, reading, why, delivered>>
  <2>1. UNCHANGED <<lock, pending, log, at, wire, got, base, writing, reading, why, delivered>>
    BY <1>7 DEF senderVars
  <2>2. target' \in Nat /\ target' = base + Len(F) /\ got <= target'
    BY <1>0, <1>1, <1>4, <1>5, <1>7
  <2>3. TypeOK' /\ NeverMisread'
    BY <2>1, <2>2, <1>7 DEF IInv, TypeOK, NeverMisread
  <2>4. \A k : End(k)' = End(k)
    BY <2>1 DEF End
  <2>5. Laid' /\ (writing = "open" => Written')
    BY <2>1, <2>4, <1>0, Zenon DEF IInv, Laid, Written
  <2>6. Placed'
    BY <2>1, <2>2, <2>4, <1>0, <1>1, <1>2, <1>7 DEF Placed, F
  <2> QED BY <2>1, <2>3, <2>5, <2>6 DEF IInv
<1>8. \/ len = 0
      \/ len > Limit /\ recv_fails("frame too large")
      \/ /\ stage' = "content" /\ target' = target + len
         /\ UNCHANGED <<senderVars, wire, got, base, writing, reading, why, delivered>>
  BY DEF recv_header, len
<1>9. len # 0
  BY <1>5
<1> QED BY <1>6, <1>7, <1>8, <1>9

LEMMA ContentStep ==
  ASSUME IInv, recv_content
  PROVE  IInv' /\ delivered' = Append(delivered, log[Len(delivered) + 1])
               /\ Len(delivered) < Len(log) /\ log' = log
<1> DEFINE d == Len(delivered) + 1
           F == Frame(log[d])
           H == HeaderSize
<1>0. Typed /\ Laid /\ Placed /\ reading = "open" /\ stage = "content" /\ got = target
  BY Types DEF IInv, recv_content
<1>1. /\ base \in Nat /\ got \in Nat /\ H \in Nat /\ target \in Nat /\ Len(wire) \in Nat
      /\ got <= Len(wire) /\ base + H <= got /\ Len(delivered) < Len(log)
      /\ target = base + Len(F) /\ Len(delivered) \in Nat /\ Len(log) \in Nat
  BY <1>0, SizeAssumption DEF Placed, Typed
<1>2. d \in 1..Len(log)
  BY <1>1
<1>3. log[d] \in Messages /\ F \in Seq(Nat) /\ Len(F) \in Nat /\ Len(F) > H
  BY <1>0, <1>2 DEF Typed
<1>4. Slice(wire, base, H) = Slice(F, 0, H)
  BY <1>0, <1>1, HeaderRead
<1>5. Slice(wire, base + H, target - base - H) = Slice(F, H, Len(F) - H)
  <2>1. target - base - H = Len(F) - H /\ Len(F) - H \in Nat
    BY <1>1, <1>3
  <2>2. H + (Len(F) - H) <= Len(F) /\ base + H + (Len(F) - H) <= Len(wire)
    BY <1>0, <1>1, <1>3
  <2>3. Slice(wire, base + H, Len(F) - H) = Slice(F, H, Len(F) - H)
    BY <2>1, <2>2, <1>0, <1>1, SliceOfFrame
  <2> QED BY <2>1, <2>3
<1>6. Parse(Slice(wire, base, H), Slice(wire, base + H, target - base - H)) = log[d]
      /\ log[d] # Bad
  BY <1>3, <1>4, <1>5, CodecAssumption
<1>7. /\ delivered' = Append(delivered, log[d])
      /\ stage' = "header" /\ base' = target /\ target' = target + H
      /\ UNCHANGED <<lock, pending, log, at, wire, got, writing, reading, why>>
  BY <1>6 DEF recv_content, senderVars
<1>8. /\ delivered' \in Seq(Messages) /\ Len(delivered') = d /\ delivered'[d] = log[d]
      /\ \A n \in 1..Len(delivered) : delivered'[n] = delivered[n]
  BY <1>0, <1>3, <1>7 DEF Typed
<1>9. TypeOK' /\ NeverMisread'
  <2>1. base' \in Nat /\ target' \in Nat
    BY <1>1, <1>7
  <2> QED BY <2>1, <1>7, <1>8 DEF IInv, TypeOK, NeverMisread
<1>10. \A k : End(k)' = End(k)
  BY <1>7 DEF End
<1>11. Laid' /\ (writing = "open" => Written')
  BY <1>0, <1>7, <1>10, Zenon DEF IInv, Laid, Written
<1>12. Placed'
  <2>1. ASSUME NEW n \in 1..Len(delivered') PROVE delivered'[n] = log[n]
    <3>1. CASE n = d
      BY <3>1, <1>8
    <3>2. CASE n \in 1..Len(delivered)
      BY <3>2, <1>0, <1>8 DEF Placed
    <3> QED BY <3>1, <3>2, <1>1, <1>8
  <2>2. base' = End(d)
    <3>1. at[d] = End(d - 1) /\ d - 1 = Len(delivered) /\ d # 0
      BY <1>0, <1>1, <1>2 DEF Laid
    <3>2. End(d) = base + Len(F)
      BY <3>1, <1>0 DEF End, Placed
    <3> QED BY <3>2, <1>1, <1>7
  <2>3. base' <= got' /\ got' <= target' /\ target' = base' + H
    BY <1>0, <1>1, <1>7
  <2> QED BY <2>1, <2>2, <2>3, <1>2, <1>7, <1>8, <1>10 DEF Placed
<1> QED BY <1>1, <1>7, <1>9, <1>11, <1>12 DEF IInv

LEMMA HoldStep ==
  ASSUME IInv, receiver_holds \/ UNCHANGED vars
  PROVE  IInv'
<1>1. /\ UNCHANGED <<lock, pending, log, at, wire, got, base, stage, target, writing, why, delivered>>
      /\ reading = "closed" => reading' = "closed"
      /\ reading' \in {reading, "holding"}
  BY DEF receiver_holds, vars, senderVars, receiverVars
<1>2. TypeOK' /\ NeverMisread'
  BY <1>1 DEF IInv, TypeOK, NeverMisread
<1>3. \A k : End(k)' = End(k)
  BY <1>1 DEF End
<1>4. ASSUME reading' # "closed" PROVE Laid' /\ Placed' /\ (writing' = "open" => Written')
  <2>1. reading # "closed"
    BY <1>1, <1>4
  <2> QED BY <2>1, <1>1, <1>3, Zenon DEF IInv, Laid, Placed, Written
<1> QED BY <1>2, <1>4 DEF IInv

LEMMA NextInv == IInv /\ [Next]_vars => IInv'
<1> SUFFICES ASSUME IInv, [Next]_vars PROVE IInv'
  OBVIOUS
<1>1. ASSUME NEW w \in Writers, SenderStep(w) PROVE IInv'
  BY <1>1, SendStep, WriteStep, ReturnStep DEF SenderStep
<1>2. CASE read_eof
  BY <1>2, FailStep DEF read_eof
<1>3. CASE receiver_closes
  BY <1>3, ReceiverCloseStep
<1>4. CASE ReceiverStep
  BY <1>2, <1>4, ReadStep, HeaderStep, ContentStep DEF ReceiverStep
<1>5. CASE Ends
  BY <1>3, <1>5, CloseStep, HoldStep DEF Ends
<1> QED BY <1>1, <1>4, <1>5, HoldStep DEF Next

\* Whatever the threads, the messages, the codec that meets CodecAssumption and
\* the sizes of the pieces in which send and recv move the bytes: recv_message
\* never reports a zero length, a wrong checksum or a malformed content, and
\* reports a frame too large only when one was sent.
THEOREM FramesNeverMisread == Spec => []NeverMisread
<1>1. IInv => NeverMisread
  BY DEF IInv
<1> QED BY InitInv, NextInv, <1>1, PTL DEF Spec

\* A connection implements the queue of whole messages that the coordinator and
\* its workers take it for: recv_message returns what was given to send_message,
\* in the order of write_mu_, each message at most once.
THEOREM FramingImplementsFifo == Spec => DeliversInOrder
<1>1. Init => Queue!Init
  BY DEF Init, Queue!Init
<1>2. ASSUME IInv, [Next]_vars
      PROVE  [Queue!Send \/ Queue!Receive]_<<log, delivered>>
  <2>1. ASSUME NEW w \in Writers, NEW m \in Messages, send_message(w, m)
        PROVE  Queue!Send
    BY <2>1 DEF send_message, Queue!Send, receiverVars
  <2>2. CASE recv_content
    BY <2>2, <1>2, ContentStep DEF Queue!Receive
  <2>3. ASSUME NEW w \in Writers, write_some(w) \/ send_returns(w) \/ send_fails(w)
        PROVE  UNCHANGED <<log, delivered>>
    BY <2>3 DEF write_some, send_returns, send_fails, receiverVars
  <2>4. CASE read_some \/ recv_header \/ read_eof \/ Ends \/ UNCHANGED vars
    <3>1. UNCHANGED <<log, delivered>>
      BY <2>4 DEF read_some, recv_header, read_eof, recv_fails, Ends, sender_closes,
                  receiver_closes, receiver_holds, senderVars, receiverVars, vars
    <3> QED BY <3>1
  <2> QED BY <1>2, <2>1, <2>2, <2>3, <2>4 DEF Next, SenderStep, ReceiverStep
<1>3. Spec => []IInv
  BY InitInv, NextInv, PTL DEF Spec
<1> QED BY <1>1, <1>2, <1>3, PTL DEF Spec, DeliversInOrder, Queue!Spec
=============================================================================
