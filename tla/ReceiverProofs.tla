---------------------------- MODULE ReceiverProofs ----------------------------
(***************************************************************************)
(* Proofs about what a receiver makes of the bytes that reach it.          *)
(*                                                                         *)
(* Frames, for every size of header, chunk and frame and any number of     *)
(* frames: however the transport cuts the stream, and whatever a sender    *)
(* breaks off or gets wrong, the decoder returns the frames that were      *)
(* written and stops at the first one that is not whole.                   *)
(*                                                                         *)
(* Strings, for any bytes and any length: the reader accepts those that    *)
(* are well formed.                                                        *)
(***************************************************************************)
EXTENDS Framing, TextField, Integers, SequenceTheorems, WellFoundedInduction, TLAPS

------------------------------------------------------------------------------
(* Frames: the inductive invariant *)

Fault == {"None", "Cut", "Magic", "Flags", "Payload"}

\* A byte is the number of its frame and its place in it.
Labelled == Nat \X Nat

TypeOK ==
    /\ written \in Seq([length : Nat, fault : Fault])
    /\ stream \in Seq(Labelled) /\ buffer_ \in Seq(Labelled)
    /\ cursor_ \in 0 .. Len(buffer_) /\ failed_ \in BOOLEAN
    /\ reader \in {"Next", "Receive"}
    /\ delivered \in Seq(Nat)

\* The bytes the decoder has not consumed, in its buffer and on their way.
UnreadLen == Available + Len(stream)
Unread ==
    [j \in 1 .. UnreadLen |->
        IF j <= Available THEN buffer_[cursor_ + j] ELSE stream[j - Available]]

\* The size of frame i of w.
Size(w, i) == kFrameHeaderBytes + w[i].length

\* The first n bytes of u are bytes of frames of w, behind the first d; of a frame
\* that was cut, the last byte is missing.
Belongs(u, n, d, w) ==
    \A j \in 1 .. n :
        /\ u[j] \in Labelled
        /\ u[j][1] \in d + 1 .. Len(w)
        /\ u[j][2] \in 1 .. Size(w, u[j][1])
        /\ w[u[j][1]].fault = "Cut" => u[j][2] < Size(w, u[j][1])

\* Of a frame that was not cut, all bytes are there, and side by side.
Whole(u, n, w) ==
    \A j \in 1 .. n :
        w[u[j][1]].fault # "Cut" =>
            \A m \in 1 .. Size(w, u[j][1]) :
                /\ j - u[j][2] + m \in 1 .. n
                /\ u[j - u[j][2] + m] = <<u[j][1], m>>

\* Frames follow each other, and no byte of one is between those of another.
Ordered(u, n) ==
    /\ \A j \in 1 .. n - 1 : u[j + 1] \in {<<u[j][1], u[j][2] + 1>>, <<u[j][1] + 1, 1>>}
    /\ \A j, l \in 1 .. n :
            j <= l => /\ u[j][1] <= u[l][1]
                      /\ u[j][1] = u[l][1] => u[l][2] - u[j][2] = l - j

\* The bytes are those of the frames behind the first d, up to the last one.
Frames(u, n, d, w) ==
    /\ Belongs(u, n, d, w)
    /\ Whole(u, n, w)
    /\ Ordered(u, n)
    /\ n > 0 => u[1] = <<d + 1, 1>> /\ u[n][1] = Len(w)
    /\ n = 0 => d = Len(w)

\* A reader waits only when the next frame is not there, and then a chunk has room.
Waits ==
    reader = "Receive" =>
        /\ Available < kFrameHeaderBytes + max_frame_bytes
        /\ Len(delivered) < Len(written) /\ Acceptable(Len(delivered) + 1)
                => Available < Total(Len(delivered) + 1)

FInv ==
    /\ TypeOK
    /\ Len(delivered) <= Len(written)
    /\ DeliveredIsPrefix
    /\ RefusedAtFirstFault
    /\ ~failed_ => Frames(Unread, UnreadLen, Len(delivered), written) /\ Waits

FrameRecord == [length : Nat, fault : Fault]

\* The bytes begin with the whole of frame i.
Front(u, n, i, w) ==
    /\ Size(w, i) \in 1 .. n
    /\ \A m \in 1 .. Size(w, i) : u[m] = <<i, m>>

\* v begins with the first n of u; behind its first n are c bytes of frame i; v is
\* what u has behind its first t.
Copies(v, u, n) == \A j \in 1 .. n : v[j] = u[j]
Continues(v, n, c, i) == \A j \in 1 .. c : v[n + j] = <<i, j>>
Shifted(v, u, n, t) == \A j \in 1 .. n - t : v[j] = u[j + t]

------------------------------------------------------------------------------
(* Frames as bytes *)

\* What Frames says depends on the bytes alone.
LEMMA SameFrames ==
    ASSUME NEW u, NEW v, NEW n \in Nat, NEW d \in Nat, NEW w \in Seq(FrameRecord),
           Frames(u, n, d, w), Copies(v, u, n)
    PROVE  Frames(v, n, d, w)
<1>1. Belongs(v, n, d, w)
    BY DEF Frames, Belongs, Copies
<1>2. Whole(v, n, w)
    BY DEF Frames, Whole, Copies
<1>3. Ordered(v, n)
    <2>1. \A j \in 1 .. n - 1 : v[j] = u[j] /\ v[j + 1] = u[j + 1]
        BY DEF Copies
    <2> QED
        BY <2>1 DEF Frames, Ordered, Copies
<1> QED
    BY <1>1, <1>2, <1>3 DEF Frames, Copies

\* As long as a frame is missing, its first byte is the first one that is there,
\* and if it was not cut, so are all of its bytes.
LEMMA NextFrame ==
    ASSUME NEW u, NEW n \in Nat, NEW d \in Nat, NEW w \in Seq(FrameRecord),
           Frames(u, n, d, w), d < Len(w)
    PROVE  /\ n > 0 /\ u[1] = <<d + 1, 1>>
           /\ w[d + 1].fault # "Cut" => Front(u, n, d + 1, w)
<1>1. n > 0 /\ u[1] = <<d + 1, 1>>
    BY DEF Frames
<1>2. Size(w, d + 1) \in Nat \ {0}
    <2>1. w[d + 1] \in FrameRecord
        OBVIOUS
    <2> QED
        BY <2>1, FramingAssumption DEF Size, FrameRecord
<1>3. ASSUME w[d + 1].fault # "Cut"
      PROVE  \A m \in 1 .. Size(w, d + 1) : m \in 1 .. n /\ u[m] = <<d + 1, m>>
    <2>1. u[1][1] = d + 1 /\ u[1][2] = 1 /\ 1 \in 1 .. n
        BY <1>1
    <2>2. \A m \in 1 .. Size(w, u[1][1]) : /\ 1 - u[1][2] + m \in 1 .. n
                                          /\ u[1 - u[1][2] + m] = <<u[1][1], m>>
        BY <1>3, <2>1 DEF Frames, Whole
    <2> QED
        BY <1>2, <2>1, <2>2
<1> QED
    BY <1>1, <1>2, <1>3 DEF Front

\* Writing a frame, or part of one.
LEMMA AddFrame ==
    ASSUME NEW u, NEW n \in Nat, NEW d \in Nat, NEW w \in Seq(FrameRecord),
           d <= Len(w), Frames(u, n, d, w),
           NEW f \in FrameRecord, NEW c \in 1 .. kFrameHeaderBytes + f.length,
           IF f.fault = "Cut" THEN c < kFrameHeaderBytes + f.length
                              ELSE c = kFrameHeaderBytes + f.length,
           NEW v, Copies(v, u, n), Continues(v, n, c, Len(w) + 1)
    PROVE  Frames(v, n + c, d, Append(w, f))
<1> DEFINE x == Append(w, f)
           N == Len(w) + 1
<1>1. /\ x \in Seq(FrameRecord) /\ Len(x) = N /\ x[N] = f /\ N \in Nat /\ Len(w) \in Nat
      /\ \A i \in 1 .. Len(w) : x[i] = w[i]
    OBVIOUS
<1>2. Size(x, N) = kFrameHeaderBytes + f.length /\ Size(x, N) \in Nat /\ c \in Nat
    BY <1>1, FramingAssumption DEF Size, FrameRecord
<1> HIDE DEF x
<1>3. ASSUME NEW j \in 1 .. n
      PROVE  /\ v[j] = u[j] /\ u[j] \in Labelled /\ u[j][1] \in d + 1 .. Len(w)
             /\ u[j][2] \in 1 .. Size(w, u[j][1]) /\ x[u[j][1]] = w[u[j][1]]
             /\ Size(x, u[j][1]) = Size(w, u[j][1])
             /\ w[u[j][1]].fault = "Cut" => u[j][2] < Size(w, u[j][1])
    <2>1. /\ v[j] = u[j] /\ u[j] \in Labelled /\ u[j][1] \in d + 1 .. Len(w)
          /\ u[j][2] \in 1 .. Size(w, u[j][1])
          /\ w[u[j][1]].fault = "Cut" => u[j][2] < Size(w, u[j][1])
        BY DEF Frames, Belongs, Copies
    <2>2. u[j][1] \in 1 .. Len(w)
        BY <2>1
    <2> QED
        BY <1>1, <2>1, <2>2 DEF Size
<1>4. ASSUME NEW j \in 1 .. n + c, j \notin 1 .. n
      PROVE  /\ j - n \in 1 .. c /\ v[j] = <<N, j - n>> /\ v[j] \in Labelled
             /\ v[j][1] = N /\ v[j][2] = j - n
    <2>1. j - n \in 1 .. c /\ n + (j - n) = j
        BY <1>2, <1>4
    <2>2. v[j] = <<N, j - n>>
        BY <2>1 DEF Continues
    <2> QED
        BY <1>1, <1>2, <2>1, <2>2 DEF Labelled
<1>5. Belongs(v, n + c, d, x)
    <2> SUFFICES ASSUME NEW j \in 1 .. n + c
                 PROVE  /\ v[j] \in Labelled
                        /\ v[j][1] \in d + 1 .. Len(x)
                        /\ v[j][2] \in 1 .. Size(x, v[j][1])
                        /\ x[v[j][1]].fault = "Cut" => v[j][2] < Size(x, v[j][1])
        BY DEF Belongs
    <2>1. CASE j \in 1 .. n
        <3>1. v[j][1] = u[j][1] /\ v[j][2] = u[j][2] /\ v[j] \in Labelled
            BY <1>3, <2>1
        <3>2. u[j][1] \in d + 1 .. Len(x)
            BY <1>1, <1>3, <2>1
        <3>3. /\ u[j][2] \in 1 .. Size(x, u[j][1])
              /\ x[u[j][1]].fault = "Cut" => u[j][2] < Size(x, u[j][1])
            <4>1. u[j][2] \in 1 .. Size(w, u[j][1]) /\ Size(x, u[j][1]) = Size(w, u[j][1])
                BY <1>3, <2>1
            <4>2. x[u[j][1]] = w[u[j][1]]
                BY <1>3, <2>1
            <4>3. w[u[j][1]].fault = "Cut" => u[j][2] < Size(w, u[j][1])
                BY <1>3, <2>1
            <4> QED
                BY <4>1, <4>2, <4>3, Zenon
        <3> QED
            BY <3>1, <3>2, <3>3
    <2>2. CASE j \notin 1 .. n
        <3>1. v[j] \in Labelled /\ v[j][1] = N /\ v[j][2] = j - n /\ j - n \in 1 .. c
            BY <1>4, <2>2
        <3>2. x[v[j][1]] = f /\ Size(x, v[j][1]) = kFrameHeaderBytes + f.length
            BY <1>1, <1>2, <3>1
        <3>3. v[j][1] \in d + 1 .. Len(x)
            BY <1>1, <3>1
        <3>4. v[j][2] \in 1 .. kFrameHeaderBytes + f.length
            BY <1>2, <3>1
        <3> QED
            BY <1>2, <3>1, <3>2, <3>3, <3>4
    <2> QED
        BY <2>1, <2>2
<1>6. Whole(v, n + c, x)
    <2> SUFFICES ASSUME NEW j \in 1 .. n + c, x[v[j][1]].fault # "Cut",
                        NEW m \in 1 .. Size(x, v[j][1])
                 PROVE  /\ j - v[j][2] + m \in 1 .. n + c
                        /\ v[j - v[j][2] + m] = <<v[j][1], m>>
        BY DEF Whole
    <2>1. CASE j \in 1 .. n
        <3>1. v[j] = u[j] /\ w[u[j][1]].fault # "Cut" /\ m \in 1 .. Size(w, u[j][1])
            BY <1>3, <2>1
        <3> DEFINE k == j - u[j][2] + m
        <3>2. k \in 1 .. n /\ u[k] = <<u[j][1], m>>
            BY <2>1, <3>1 DEF Frames, Whole
        <3> HIDE DEF k
        <3>3. k \in 1 .. n + c /\ v[k] = <<u[j][1], m>>
            BY <1>2, <3>2 DEF Copies
        <3> QED
            BY <3>1, <3>3 DEF k
    <2>2. CASE j \notin 1 .. n
        <3>1. v[j][1] = N /\ v[j][2] = j - n
            BY <1>4, <2>2
        <3>2. m \in 1 .. c
            BY <1>1, <1>2, <3>1
        <3>3. j - v[j][2] + m = n + m
            BY <1>2, <3>1, <3>2
        <3> QED
            BY <1>2, <3>1, <3>2, <3>3 DEF Continues
    <2> QED
        BY <2>1, <2>2
<1>7. ASSUME NEW j \in 1 .. n + c - 1
      PROVE  v[j + 1] \in {<<v[j][1], v[j][2] + 1>>, <<v[j][1] + 1, 1>>}
    <2>1. CASE j + 1 \in 1 .. n
        <3>1. j \in 1 .. n /\ j \in 1 .. n - 1
            BY <2>1
        <3> QED
            BY <1>3, <2>1, <3>1 DEF Frames, Ordered
    <2>2. CASE j = n
        <3>1. v[j + 1] = <<N, 1>>
            BY <1>2, <2>2 DEF Continues
        <3>2. v[j][1] = Len(w)
            BY <1>3, <2>2 DEF Frames
        <3> QED
            BY <3>1, <3>2
    <2>3. CASE j > n
        <3>1. j \in 1 .. n + c /\ j \notin 1 .. n /\ j + 1 \in 1 .. n + c /\ j + 1 \notin 1 .. n
            BY <1>2, <2>3
        <3>2. v[j + 1] = <<N, j + 1 - n>> /\ v[j][1] = N /\ v[j][2] = j - n
            BY <1>4, <3>1
        <3>3. j + 1 - n = j - n + 1
            BY <1>2
        <3> QED
            BY <3>2, <3>3
    <2> QED
        BY <1>2, <2>1, <2>2, <2>3
<1>8. ASSUME NEW j \in 1 .. n + c, NEW l \in 1 .. n + c, j <= l
      PROVE  /\ v[j][1] <= v[l][1]
             /\ v[j][1] = v[l][1] => v[l][2] - v[j][2] = l - j
    <2>1. CASE l \in 1 .. n
        <3>1. j \in 1 .. n
            BY <1>8, <2>1
        <3>2. v[j] = u[j] /\ v[l] = u[l]
            BY <2>1, <3>1 DEF Copies
        <3>3. /\ u[j][1] <= u[l][1]
              /\ u[j][1] = u[l][1] => u[l][2] - u[j][2] = l - j
            <4>1. \A p, q \in 1 .. n :
                        p <= q => /\ u[p][1] <= u[q][1]
                                  /\ u[p][1] = u[q][1] => u[q][2] - u[p][2] = q - p
                BY DEF Frames, Ordered
            <4> QED
                BY <1>8, <2>1, <3>1, <4>1
        <3>4. /\ v[j][1] = u[j][1] /\ v[j][2] = u[j][2]
              /\ v[l][1] = u[l][1] /\ v[l][2] = u[l][2]
              /\ u[j] \in Labelled /\ u[l] \in Labelled
            BY <1>3, <2>1, <3>1, <3>2
        <3> QED
            BY <3>3, <3>4 DEF Labelled
    <2>2. CASE l \notin 1 .. n /\ j \in 1 .. n
        <3>1. v[l][1] = N /\ v[j][1] \in d + 1 .. Len(w)
            BY <1>3, <1>4, <2>2
        <3> QED
            BY <1>1, <3>1
    <2>3. CASE l \notin 1 .. n /\ j \notin 1 .. n
        BY <1>2, <1>4, <2>3
    <2> QED
        BY <2>1, <2>2, <2>3
<1>9. Ordered(v, n + c)
    BY <1>7, <1>8 DEF Ordered
<1>10. v[1] = <<d + 1, 1>>
    <2>1. CASE n = 0
        BY <1>2, <2>1 DEF Frames, Continues
    <2>2. CASE n > 0
        BY <1>3, <2>2 DEF Frames
    <2> QED
        BY <2>1, <2>2
<1>11. v[n + c][1] = Len(x)
    BY <1>1, <1>2, <1>4
<1> QED
    BY <1>2, <1>5, <1>6, <1>9, <1>10, <1>11 DEF Frames, x

\* Taking a whole frame away from the front.
LEMMA DropFrame ==
    ASSUME NEW u, NEW n \in Nat, NEW d \in Nat, NEW w \in Seq(FrameRecord),
           Frames(u, n, d, w), d < Len(w), w[d + 1].fault # "Cut",
           NEW t \in Nat, t = Size(w, d + 1),
           NEW v, Shifted(v, u, n, t)
    PROVE  t \in 1 .. n /\ Frames(v, n - t, d + 1, w)
<1>1. /\ t \in 1 .. n /\ n - t \in Nat /\ Len(w) \in Nat
      /\ \A m \in 1 .. t : u[m] = <<d + 1, m>>
    <2>1. Front(u, n, d + 1, w)
        BY NextFrame
    <2> QED
        BY <2>1 DEF Front
<1>2. ASSUME NEW j \in 1 .. n - t
      PROVE  /\ j + t \in 1 .. n /\ v[j] = u[j + t]
             /\ v[j] \in Labelled /\ v[j][1] \in d + 1 .. Len(w) /\ v[j][2] \in 1 .. Size(w, v[j][1])
             /\ w[v[j][1]].fault = "Cut" => v[j][2] < Size(w, v[j][1])
    <2>1. j + t \in 1 .. n /\ v[j] = u[j + t]
        BY <1>1 DEF Shifted
    <2> QED
        BY <2>1 DEF Frames, Belongs
<1>3. \A p, q \in 1 .. n :
            p <= q => /\ u[p][1] <= u[q][1]
                      /\ u[p][1] = u[q][1] => u[q][2] - u[p][2] = q - p
    BY DEF Frames, Ordered
<1>4. ASSUME NEW j \in 1 .. n - t PROVE v[j][1] # d + 1
    <2>1. SUFFICES ASSUME v[j][1] = d + 1 PROVE FALSE
        OBVIOUS
    <2>2. t \in 1 .. n /\ u[t][1] = d + 1 /\ u[t][2] = t /\ t <= j + t
        BY <1>1
    <2>3. v[j][2] - t = j + t - t
        <3>1. j + t \in 1 .. n /\ u[j + t][1] = u[t][1] /\ u[j + t][2] = v[j][2]
            BY <1>2, <2>1, <2>2
        <3>2. u[j + t][2] - u[t][2] = j + t - t
            BY <1>3, <2>2, <3>1
        <3> QED
            BY <2>2, <3>1, <3>2
    <2>4. v[j][2] <= t /\ v[j][2] \in Nat
        BY <1>1, <1>2, <2>1 DEF Labelled
    <2> DEFINE y == v[j][2]
    <2>5. y - t = j + t - t /\ y <= t /\ y \in Nat
        BY <2>3, <2>4, Zenon
    <2> HIDE DEF y
    <2> QED
        BY <2>5
<1>5. Belongs(v, n - t, d + 1, w)
    <2>1. \A j \in 1 .. n - t : v[j][1] \in d + 1 + 1 .. Len(w)
        BY <1>1, <1>2, <1>4
    <2> QED
        BY <1>2, <2>1 DEF Belongs
<1>6. Whole(v, n - t, w)
    <2> SUFFICES ASSUME NEW j \in 1 .. n - t, w[v[j][1]].fault # "Cut",
                        NEW m \in 1 .. Size(w, v[j][1])
                 PROVE  /\ j - v[j][2] + m \in 1 .. n - t
                        /\ v[j - v[j][2] + m] = <<v[j][1], m>>
        BY DEF Whole
    <2> DEFINE k == j + t - v[j][2] + m
    <2>1. k \in 1 .. n /\ u[k] = <<v[j][1], m>>
        <3> DEFINE q == j + t
        <3>1. /\ q \in 1 .. n /\ u[q] = v[j] /\ w[u[q][1]].fault # "Cut"
              /\ m \in 1 .. Size(w, u[q][1])
            BY <1>2
        <3> HIDE DEF q
        <3>2. /\ q - u[q][2] + m \in 1 .. n
              /\ u[q - u[q][2] + m] = <<u[q][1], m>>
            BY <3>1 DEF Frames, Whole
        <3>3. u[q][1] = v[j][1] /\ u[q][2] = v[j][2] /\ q = j + t
            BY <3>1 DEF q
        <3>4. v[j] \in Labelled
            BY <1>2
        <3>5. v[j][2] \in Int /\ m \in Int /\ q \in Int
            BY <3>1, <3>4 DEF Labelled
        <3>6. q - u[q][2] + m = k
            BY <3>3, <3>5
        <3> HIDE DEF k
        <3> QED
            BY <3>2, <3>3, <3>6
    <2>2. j - v[j][2] + m = k - t /\ k \in Int
        <3>1. v[j][2] \in Int
            BY <1>2 DEF Labelled
        <3>2. \A y \in Int : j - y + m = (j + t - y + m) - t /\ j + t - y + m \in Int
            OBVIOUS
        <3> QED
            BY <3>1, <3>2, Zenon
    <2> HIDE DEF k
    <2>3. k \notin 1 .. t
        <3>1. u[k][1] = v[j][1]
            BY <2>1
        <3> QED
            BY <1>1, <1>4, <3>1
    <2>4. k - t \in 1 .. n - t /\ k - t + t = k
        <3>1. k \in Int /\ t < k /\ k <= n
            BY <1>1, <2>1, <2>3
        <3> QED
            BY <3>1
    <2>5. v[k - t] = u[k]
        BY <1>2, <2>4
    <2> QED
        BY <2>1, <2>2, <2>4, <2>5
<1>7. Ordered(v, n - t)
    <2>1. ASSUME NEW j \in 1 .. n - t - 1
          PROVE  v[j + 1] \in {<<v[j][1], v[j][2] + 1>>, <<v[j][1] + 1, 1>>}
        <3>1. j \in 1 .. n - t /\ j + 1 \in 1 .. n - t /\ j + t \in 1 .. n - 1
            <4>1. n \in Int /\ t \in Nat
                BY <1>1
            <4> QED
                BY <4>1
        <3>2. v[j] = u[j + t] /\ v[j + 1] = u[j + t + 1]
            <4>1. v[j + 1] = u[j + 1 + t] /\ j + 1 + t = j + t + 1
                BY <1>1, <1>2, <3>1
            <4> QED
                BY <1>2, <3>1, <4>1
        <3> QED
            BY <3>1, <3>2 DEF Frames, Ordered
    <2>2. ASSUME NEW j \in 1 .. n - t, NEW l \in 1 .. n - t, j <= l
          PROVE  /\ v[j][1] <= v[l][1]
                 /\ v[j][1] = v[l][1] => v[l][2] - v[j][2] = l - j
        <3>1. j + t \in 1 .. n /\ l + t \in 1 .. n /\ j + t <= l + t
            BY <1>1, <1>2, <2>2
        <3>2. /\ u[j + t][1] <= u[l + t][1]
              /\ u[j + t][1] = u[l + t][1] => u[l + t][2] - u[j + t][2] = (l + t) - (j + t)
            BY <1>3, <3>1
        <3>3. (l + t) - (j + t) = l - j
            BY <1>1
        <3> QED
            BY <1>2, <3>2, <3>3
    <2> QED
        BY <2>1, <2>2 DEF Ordered
<1>8. ASSUME n - t > 0 PROVE v[1] = <<d + 2, 1>> /\ v[n - t][1] = Len(w)
    <2>1. 1 \in 1 .. n - t /\ n - t \in 1 .. n - t /\ t \in 1 .. n - 1
        BY <1>1, <1>8
    <2>2. v[1] = u[t + 1]
        BY <1>1, <1>2, <2>1
    <2>3. u[t + 1] \in {<<u[t][1], u[t][2] + 1>>, <<u[t][1] + 1, 1>>}
        BY <2>1 DEF Frames, Ordered
    <2>4. u[t][1] = d + 1
        BY <1>1
    <2>5. v[1] = <<d + 1 + 1, 1>>
        BY <1>4, <2>1, <2>2, <2>3, <2>4
    <2>6. v[n - t] = u[n]
        BY <1>1, <1>2, <2>1
    <2> QED
        BY <1>1, <2>5, <2>6 DEF Frames
<1>9. ASSUME n - t = 0 PROVE d + 1 = Len(w)
    <2>1. n = t /\ n > 0
        BY <1>1, <1>9
    <2>2. u[n][1] = d + 1 /\ u[n][1] = Len(w)
        BY <1>1, <2>1 DEF Frames
    <2> QED
        BY <2>2
<1>10. d + 1 + 1 = d + 2
    OBVIOUS
<1> QED
    BY <1>1, <1>5, <1>6, <1>7, <1>8, <1>9, <1>10 DEF Frames

------------------------------------------------------------------------------
(* The decoder's buffer *)

\* The bytes of s behind the first a, up to the b-th.
LEMMA Slice ==
    ASSUME NEW s \in Seq(Labelled), NEW a \in Nat, NEW b \in Nat, a <= b, b <= Len(s)
    PROVE  /\ SubSeq(s, a + 1, b) \in Seq(Labelled) /\ Len(SubSeq(s, a + 1, b)) = b - a
           /\ \A m \in 1 .. b - a : SubSeq(s, a + 1, b)[m] = s[a + m]
<1> DEFINE x == SubSeq(s, a + 1, b)
<1>1. \A m \in a + 1 .. b : s[m] \in Labelled
    OBVIOUS
<1>2. a + 1 \in Int /\ b \in Int
    OBVIOUS
<1>3. /\ x \in Seq(Labelled) /\ Len(x) = IF a + 1 <= b THEN b - (a + 1) + 1 ELSE 0
      /\ \A m \in 1 .. b - (a + 1) + 1 : x[m] = s[a + 1 + m - 1]
    BY <1>1, <1>2, SubSeqProperties
<1> HIDE DEF x
<1>4. b - (a + 1) + 1 = b - a /\ \A m \in 1 .. b - a : a + 1 + m - 1 = a + m
    OBVIOUS
<1>5. Len(x) = b - a
    BY <1>3, <1>4
<1> QED
    BY <1>3, <1>4, <1>5 DEF x

\* The first t unread bytes in the buffer are those of frame i.
LEMMA Window ==
    ASSUME buffer_ \in Seq(Labelled), cursor_ \in Nat, NEW i, NEW t \in Nat,
           cursor_ + t <= Len(buffer_)
    PROVE  SubSeq(buffer_, cursor_ + 1, cursor_ + t) = Bytes(i, t)
                <=> \A m \in 1 .. t : buffer_[cursor_ + m] = <<i, m>>
<1> DEFINE s == SubSeq(buffer_, cursor_ + 1, cursor_ + t)
           b == cursor_ + t
<1>1. b \in Nat /\ cursor_ <= b /\ b <= Len(buffer_) /\ b - cursor_ = t
    OBVIOUS
<1> HIDE DEF b
<1>2. /\ SubSeq(buffer_, cursor_ + 1, b) \in Seq(Labelled)
      /\ Len(SubSeq(buffer_, cursor_ + 1, b)) = b - cursor_
      /\ \A m \in 1 .. b - cursor_ : SubSeq(buffer_, cursor_ + 1, b)[m] = buffer_[cursor_ + m]
    BY <1>1, Slice
<1>3. s \in Seq(Labelled) /\ Len(s) = t /\ \A m \in 1 .. t : s[m] = buffer_[cursor_ + m]
    BY <1>1, <1>2 DEF b
<1> HIDE DEF s
<1>4. s = [m \in 1 .. t |-> s[m]]
    BY <1>3
<1>5. s = Bytes(i, t) <=> \A m \in 1 .. t : s[m] = <<i, m>>
    BY <1>4 DEF Bytes
<1> QED
    BY <1>3, <1>5 DEF s

\* What the unread bytes are made of.
LEMMA UnreadBytes ==
    ASSUME TypeOK
    PROVE  /\ Available \in Nat /\ UnreadLen \in Nat /\ Available <= UnreadLen
           /\ UnreadLen = Available + Len(stream)
           /\ \A j \in 1 .. Available : Unread[j] = buffer_[cursor_ + j]
           /\ \A j \in 1 .. Len(stream) : Unread[Available + j] = stream[j]
<1>1. Available \in Nat /\ Len(stream) \in Nat
    BY DEF TypeOK, Available
<1>2. UnreadLen \in Nat /\ UnreadLen = Available + Len(stream)
    BY <1>1 DEF UnreadLen
<1>3. \A j \in 1 .. Available : Unread[j] = buffer_[cursor_ + j]
    BY <1>1, <1>2 DEF Unread
<1>4. ASSUME NEW j \in 1 .. Len(stream) PROVE Unread[Available + j] = stream[j]
    <2> DEFINE k == Available + j
    <2>1. k \in 1 .. UnreadLen /\ ~(k <= Available) /\ k - Available = j
        BY <1>1, <1>2
    <2> HIDE DEF k
    <2>2. Unread[k] = stream[k - Available]
        BY <2>1 DEF Unread
    <2> QED
        BY <2>1, <2>2 DEF k
<1> QED
    BY <1>1, <1>2, <1>3, <1>4

\* The frames that next can see: the header at the cursor is that of the first
\* frame not returned yet, and it is there if that frame was not cut.
LEMMA HeaderIsNext ==
    ASSUME FInv, ~failed_, Available >= kFrameHeaderBytes
    PROVE  /\ Len(delivered) < Len(written)
           /\ \A i \in DOMAIN written : HeaderOf(i) => i = Len(delivered) + 1
           /\ written[Len(delivered) + 1].fault # "Cut" => HeaderOf(Len(delivered) + 1)
<1> DEFINE d == Len(delivered)
<1>1. /\ TypeOK /\ d \in Nat /\ written \in Seq(FrameRecord) /\ d <= Len(written)
      /\ Frames(Unread, UnreadLen, d, written)
    BY DEF FInv, TypeOK, FrameRecord
<1>2. kFrameHeaderBytes \in Nat \ {0}
    BY FramingAssumption
<1>3. UnreadLen \in Nat /\ UnreadLen > 0 /\ 1 \in 1 .. Available
    BY <1>1, <1>2, UnreadBytes
<1>4. d < Len(written)
    <2>1. Unread[1] = <<d + 1, 1>> /\ Unread[1][1] \in d + 1 .. Len(written)
        BY <1>1, <1>3 DEF Frames, Belongs
    <2> QED
        BY <1>1, <2>1
<1>5. buffer_ \in Seq(Labelled) /\ cursor_ \in Nat /\ cursor_ + kFrameHeaderBytes <= Len(buffer_)
    BY <1>1, <1>2 DEF TypeOK, Available
<1>6. \A j \in 1 .. kFrameHeaderBytes : Unread[j] = buffer_[cursor_ + j]
    BY <1>1, <1>2, UnreadBytes
<1>7. ASSUME NEW i \in DOMAIN written, HeaderOf(i) PROVE i = d + 1
    <2>1. \A m \in 1 .. kFrameHeaderBytes : buffer_[cursor_ + m] = <<i, m>>
        BY <1>2, <1>5, <1>7, Window DEF HeaderOf
    <2>2. buffer_[cursor_ + 1] = <<i, 1>> /\ buffer_[cursor_ + 1] = Unread[1]
        BY <1>2, <1>6, <2>1
    <2>3. Unread[1] = <<d + 1, 1>>
        BY <1>1, <1>3 DEF Frames
    <2> QED
        BY <2>2, <2>3
<1>8. ASSUME written[d + 1].fault # "Cut" PROVE HeaderOf(d + 1)
    <2>1. \A m \in 1 .. Size(written, d + 1) : Unread[m] = <<d + 1, m>>
        BY <1>1, <1>3, <1>4, <1>8, NextFrame DEF Front
    <2>2. kFrameHeaderBytes <= Size(written, d + 1) /\ Size(written, d + 1) \in Nat
        <3>1. written[d + 1] \in FrameRecord
            BY <1>1, <1>4
        <3> QED
            BY <1>2, <3>1 DEF Size, FrameRecord
    <2>3. \A m \in 1 .. kFrameHeaderBytes : buffer_[cursor_ + m] = <<d + 1, m>>
        BY <1>2, <1>6, <2>1, <2>2
    <2> QED
        BY <1>2, <1>5, <2>3, Window DEF HeaderOf
<1> QED
    BY <1>4, <1>7, <1>8

------------------------------------------------------------------------------
(* The steps *)

\* Nothing is written, consumed or on its way in the beginning.
LEMMA FInvInit == Init => FInv
<1> SUFFICES ASSUME Init PROVE FInv
    OBVIOUS
<1>1. TypeOK
    <2>1. \A S : <<>> \in Seq(S) /\ Len(<<>>) = 0
        OBVIOUS
    <2>2. /\ written \in Seq([length : Nat, fault : Fault]) /\ stream \in Seq(Labelled)
          /\ buffer_ \in Seq(Labelled) /\ delivered \in Seq(Nat)
        BY <2>1, Zenon DEF Init
    <2>3. cursor_ \in 0 .. Len(buffer_)
        BY <2>1 DEF Init
    <2>4. failed_ \in BOOLEAN /\ reader \in {"Next", "Receive"}
        BY DEF Init
    <2> QED
        BY <2>2, <2>3, <2>4, Zenon DEF TypeOK
<1>2. Len(delivered) = 0 /\ Len(written) = 0 /\ UnreadLen = 0
    BY DEF Init, UnreadLen, Available
<1>3. DeliveredIsPrefix
    BY <1>2 DEF Init, DeliveredIsPrefix
<1>4. Frames(Unread, UnreadLen, Len(delivered), written)
    BY <1>2 DEF Frames, Belongs, Whole, Ordered
<1> QED
    BY <1>1, <1>2, <1>3, <1>4 DEF FInv, Init, RefusedAtFirstFault, Waits

\* Writing a frame, or the first bytes of one, adds it behind all others.
LEMMA WriteInv ==
    ASSUME FInv, NEW length \in Nat, NEW fault \in Fault,
           NEW n \in 1 .. kFrameHeaderBytes + length,
           IF fault = "Cut" THEN n < kFrameHeaderBytes + length
                            ELSE n = kFrameHeaderBytes + length,
           Write(length, fault, n)
    PROVE  FInv'
<1> DEFINE d == Len(delivered)
           f == [length |-> length, fault |-> fault]
           N == Len(written) + 1
<1>1. /\ TypeOK /\ d \in Nat /\ written \in Seq(FrameRecord) /\ d <= Len(written)
      /\ f \in FrameRecord /\ n \in Nat /\ f.length = length /\ f.fault = fault
    BY FramingAssumption DEF FInv, TypeOK, FrameRecord
<1>2. /\ written' = Append(written, f) /\ stream' = stream \o Bytes(Len(written'), n)
      /\ UNCHANGED <<buffer_, cursor_, failed_, reader, delivered>>
    BY DEF Write
<1>3. /\ written' \in Seq(FrameRecord) /\ Len(written') = N /\ N \in Nat
      /\ \A i \in 1 .. Len(written) : written'[i] = written[i]
      /\ Len(written) \in Nat
    BY <1>1, <1>2
<1>4. /\ Bytes(N, n) \in Seq(Labelled) /\ Len(Bytes(N, n)) = n
      /\ \A j \in 1 .. n : Bytes(N, n)[j] = <<N, j>>
    BY <1>1, <1>3 DEF Bytes, Labelled
<1>5. /\ stream' \in Seq(Labelled) /\ Len(stream') = Len(stream) + n
      /\ \A j \in 1 .. Len(stream) : stream'[j] = stream[j]
      /\ \A j \in 1 .. n : stream'[Len(stream) + j] = <<N, j>>
    <2>1. stream \in Seq(Labelled) /\ stream' = stream \o Bytes(N, n)
        BY <1>1, <1>2, <1>3 DEF TypeOK
    <2>2. /\ stream' \in Seq(Labelled) /\ Len(stream') = Len(stream) + n
          /\ \A i \in 1 .. Len(stream) + n : stream'[i] =
                IF i <= Len(stream) THEN stream[i] ELSE Bytes(N, n)[i - Len(stream)]
        <3> DEFINE b == Bytes(N, n)
        <3>1. b \in Seq(Labelled) /\ Len(b) = n
            BY <1>4
        <3> HIDE DEF b
        <3>2. /\ stream \o b \in Seq(Labelled) /\ Len(stream \o b) = Len(stream) + Len(b)
              /\ \A i \in 1 .. Len(stream) + Len(b) : (stream \o b)[i] =
                    IF i <= Len(stream) THEN stream[i] ELSE b[i - Len(stream)]
            BY <2>1, <3>1, ConcatProperties, Zenon
        <3> QED
            BY <2>1, <3>1, <3>2 DEF b
    <2>3. ASSUME NEW j \in 1 .. n PROVE stream'[Len(stream) + j] = <<N, j>>
        <3> DEFINE k == Len(stream) + j
        <3>1. k \in 1 .. Len(stream) + n /\ ~(k <= Len(stream)) /\ k - Len(stream) = j
            BY <1>1, <2>1
        <3> HIDE DEF k
        <3> QED
            BY <1>4, <2>2, <3>1 DEF k
    <2> QED
        BY <1>1, <2>1, <2>2, <2>3
<1>6. TypeOK'
    BY <1>1, <1>2, <1>3, <1>5 DEF TypeOK, FrameRecord
<1>7. /\ Available' = Available /\ Available \in Nat /\ UnreadLen \in Nat
      /\ UnreadLen' = UnreadLen + n
    BY <1>1, <1>2, <1>5, UnreadBytes DEF Available, UnreadLen
<1>8. \A k \in 1 .. Len(written) : Acceptable(k)' = Acceptable(k) /\ Total(k)' = Total(k)
    BY <1>3 DEF Acceptable, Total
<1>9. DeliveredIsPrefix' /\ RefusedAtFirstFault' /\ Len(delivered') <= Len(written')
    <2>1. DOMAIN delivered = 1 .. d
        BY <1>1 DEF TypeOK
    <2>2. \A k \in 1 .. d : Acceptable(k)'
        BY <1>1, <1>3, <1>8, <2>1 DEF FInv, DeliveredIsPrefix
    <2>3. DeliveredIsPrefix'
        BY <1>2, <2>1, <2>2 DEF FInv, DeliveredIsPrefix
    <2>4. ASSUME failed_ PROVE d < Len(written') /\ ~Acceptable(d + 1)'
        <3>1. d < Len(written) /\ ~Acceptable(d + 1)
            BY <2>4 DEF FInv, RefusedAtFirstFault
        <3>2. written'[d + 1] = written[d + 1]
            BY <1>1, <1>3, <3>1
        <3> QED
            BY <1>1, <1>2, <1>3, <3>1, <3>2 DEF Acceptable
    <2> QED
        BY <1>1, <1>2, <1>3, <2>3, <2>4 DEF RefusedAtFirstFault
<1>10. ASSUME ~failed_ PROVE Frames(Unread, UnreadLen, Len(delivered), written)'
    <2>1. Frames(Unread, UnreadLen, d, written)
        BY <1>10 DEF FInv
    <2>2. (TypeOK /\ Available \in Nat)' /\ Len(stream) \in Nat
        BY <1>1, <1>2, <1>6, <1>7 DEF TypeOK
    <2>3. \A j \in 1 .. UnreadLen + n :
            Unread'[j] = IF j <= Available THEN buffer_[cursor_ + j] ELSE stream'[j - Available]
        BY <1>2, <1>7 DEF Unread
    <2>4. ASSUME NEW j \in 1 .. UnreadLen PROVE Unread'[j] = Unread[j]
        <3>1. Unread'[j] = IF j <= Available THEN buffer_[cursor_ + j] ELSE stream'[j - Available]
            BY <1>1, <1>7, <2>3
        <3>2. Unread[j] = IF j <= Available THEN buffer_[cursor_ + j] ELSE stream[j - Available]
            BY DEF Unread
        <3>3. j > Available => j - Available \in 1 .. Len(stream)
            BY <1>1, <1>7, UnreadBytes
        <3> QED
            BY <1>5, <1>7, <3>1, <3>2, <3>3
    <2>5. ASSUME NEW j \in 1 .. n PROVE Unread'[UnreadLen + j] = <<N, j>>
        <3> DEFINE k == UnreadLen + j
        <3>1. /\ k \in 1 .. UnreadLen + n /\ ~(k <= Available)
              /\ k - Available = Len(stream) + j
            BY <1>1, <1>7, <2>2, UnreadBytes
        <3> HIDE DEF k
        <3>2. Unread'[k] = stream'[k - Available]
            BY <2>3, <3>1
        <3> QED
            BY <1>5, <3>1, <3>2 DEF k
    <2> DEFINE v == Unread'
    <2> HIDE DEF v
    <2>6. Frames(v, UnreadLen + n, d, Append(written, f))
        <3>1. Copies(v, Unread, UnreadLen)
            BY <2>4 DEF v, Copies
        <3>2. Continues(v, UnreadLen, n, Len(written) + 1)
            BY <2>5 DEF v, Continues
        <3>3. n \in 1 .. kFrameHeaderBytes + f.length
            BY <1>1
        <3>4. IF f.fault = "Cut" THEN n < kFrameHeaderBytes + f.length
                                 ELSE n = kFrameHeaderBytes + f.length
            BY <1>1
        <3> HIDE DEF f
        <3> QED
            BY <1>1, <1>7, <2>1, <3>1, <3>2, <3>3, <3>4, AddFrame
    <2>7. Frames(v, UnreadLen', Len(delivered'), written')
        BY <1>2, <1>7, <2>6
    <2> QED
        BY <2>7 DEF v, Frames, Belongs, Whole, Ordered, Size
<1>11. ASSUME ~failed_, reader = "Receive", d < Len(written'), Acceptable(d + 1)'
       PROVE  Available < Total(d + 1)'
    <2>1. CASE d < Len(written)
        <3>1. d + 1 \in 1 .. Len(written)
            BY <1>1, <1>3, <2>1
        <3>2. Acceptable(d + 1) /\ Total(d + 1)' = Total(d + 1)
            BY <1>2, <1>3, <1>11, <3>1 DEF Acceptable, Total
        <3> QED
            BY <1>11, <2>1, <3>2 DEF FInv, Waits
    <2>2. CASE d = Len(written)
        <3>1. UnreadLen = 0
            <4>1. UnreadLen > 0 => 1 \in 1 .. UnreadLen
                BY <1>7
            <4>2. UnreadLen > 0 => Unread[1] = <<d + 1, 1>> /\ Unread[1][1] \in d + 1 .. Len(written)
                BY <1>11, <4>1 DEF FInv, Frames, Belongs
            <4> QED
                BY <1>1, <1>7, <2>2, <4>2
        <3>2. Available = 0
            BY <1>1, <1>7, <3>1, UnreadBytes
        <3>3. written'[d + 1] = f
            BY <1>1, <1>2, <2>2
        <3> QED
            BY <1>1, <1>2, <3>2, <3>3, FramingAssumption DEF Total
    <2> QED
        BY <1>1, <1>3, <2>1, <2>2
<1>12. ~failed_ => Waits'
    BY <1>2, <1>7, <1>11 DEF FInv, Waits
<1> QED
    BY <1>2, <1>6, <1>9, <1>10, <1>12 DEF FInv

\* Finding that the next frame is not there.
LEMMA NotFoundInv ==
    ASSUME FInv, ~failed_, NotFound, UNCHANGED <<written, stream>>,
           Available < kFrameHeaderBytes + max_frame_bytes,
           Len(delivered) < Len(written) /\ Acceptable(Len(delivered) + 1)
                => Available < Total(Len(delivered) + 1)
    PROVE  FInv'
<1>1. /\ UNCHANGED <<buffer_, cursor_, failed_, delivered, written, stream>>
      /\ reader' = "Receive"
    BY DEF NotFound
<1>2. TypeOK'
    BY <1>1 DEF FInv, TypeOK
<1>3. (Len(delivered) <= Len(written) /\ DeliveredIsPrefix /\ RefusedAtFirstFault)'
    BY <1>1 DEF FInv, DeliveredIsPrefix, RefusedAtFirstFault, Acceptable
<1>4. Available' = Available /\ UnreadLen' = UnreadLen
    BY <1>1 DEF Available, UnreadLen
<1>5. Unread' = Unread
    BY <1>1, <1>4 DEF Unread
<1>6. Frames(Unread, UnreadLen, Len(delivered), written)'
    BY <1>1, <1>4, <1>5 DEF FInv, Frames, Belongs, Whole, Ordered, Size
<1>7. Waits'
    BY <1>1, <1>4 DEF Waits, Acceptable, Total
<1> QED
    BY <1>2, <1>3, <1>6, <1>7 DEF FInv

\* Refusing the next frame.
LEMMA RefuseInv ==
    ASSUME FInv, Refuse, UNCHANGED <<written, stream>>,
           Len(delivered) < Len(written), ~Acceptable(Len(delivered) + 1)
    PROVE  FInv'
<1>1. /\ UNCHANGED <<buffer_, cursor_, reader, delivered, written, stream>>
      /\ failed_' = TRUE
    BY DEF Refuse
<1>2. TypeOK'
    BY <1>1 DEF FInv, TypeOK
<1>3. (Len(delivered) <= Len(written) /\ DeliveredIsPrefix)'
    BY <1>1 DEF FInv, DeliveredIsPrefix, Acceptable
<1>4. RefusedAtFirstFault'
    BY <1>1 DEF RefusedAtFirstFault, Acceptable
<1> QED
    BY <1>1, <1>2, <1>3, <1>4 DEF FInv

\* If the next frame was not cut and is in the buffer, so is its payload; and if
\* its last byte is there, it was not cut.
LEMMA PayloadIsNext ==
    ASSUME FInv, ~failed_, Len(delivered) < Len(written),
           Available >= Total(Len(delivered) + 1)
    PROVE  SubSeq(buffer_, cursor_ + 1, cursor_ + Total(Len(delivered) + 1))
                = Bytes(Len(delivered) + 1, Total(Len(delivered) + 1))
            <=> written[Len(delivered) + 1].fault # "Cut"
<1> DEFINE d == Len(delivered)
           T == Total(d + 1)
<1>1. /\ TypeOK /\ d \in Nat /\ written \in Seq(FrameRecord) /\ d <= Len(written)
      /\ Frames(Unread, UnreadLen, d, written)
    BY DEF FInv, TypeOK, FrameRecord
<1>2. T \in Nat \ {0} /\ T = Size(written, d + 1)
    <2>1. written[d + 1] \in FrameRecord
        BY <1>1
    <2> QED
        BY <2>1, FramingAssumption DEF Total, Size, FrameRecord
<1> HIDE DEF T
<1>3. buffer_ \in Seq(Labelled) /\ cursor_ \in Nat /\ cursor_ + T <= Len(buffer_)
    BY <1>1, <1>2 DEF TypeOK, Available, T
<1>4. UnreadLen \in Nat /\ T \in 1 .. UnreadLen
    BY <1>1, <1>2, UnreadBytes DEF T
<1>5. \A j \in 1 .. T : Unread[j] = buffer_[cursor_ + j]
    BY <1>1, <1>2, UnreadBytes DEF T
<1>6. SubSeq(buffer_, cursor_ + 1, cursor_ + T) = Bytes(d + 1, T)
            <=> \A m \in 1 .. T : buffer_[cursor_ + m] = <<d + 1, m>>
    BY <1>2, <1>3, Window
<1>7. ASSUME written[d + 1].fault # "Cut"
      PROVE  \A m \in 1 .. T : buffer_[cursor_ + m] = <<d + 1, m>>
    <2>1. \A m \in 1 .. Size(written, d + 1) : Unread[m] = <<d + 1, m>>
        BY <1>1, <1>4, <1>7, NextFrame DEF Front
    <2> QED
        BY <1>2, <1>5, <2>1
<1>8. ASSUME \A m \in 1 .. T : buffer_[cursor_ + m] = <<d + 1, m>>
      PROVE  written[d + 1].fault # "Cut"
    <2>1. T \in 1 .. T /\ Unread[T] = <<d + 1, T>>
        BY <1>2, <1>5, <1>8
    <2>2. Unread[T][1] = d + 1 /\ Unread[T][2] = T
        BY <2>1
    <2>3. written[Unread[T][1]].fault = "Cut" => Unread[T][2] < Size(written, Unread[T][1])
        BY <1>1, <1>4 DEF Frames, Belongs
    <2> QED
        BY <1>2, <2>2, <2>3
<1> QED
    BY <1>6, <1>7, <1>8 DEF T

\* Returning the next frame.
LEMMA ConsumeInv ==
    ASSUME FInv, ~failed_, reader = "Next", UNCHANGED <<written, stream>>,
           Len(delivered) < Len(written), Acceptable(Len(delivered) + 1),
           Available >= Total(Len(delivered) + 1), Consume(Len(delivered) + 1)
    PROVE  FInv'
<1> DEFINE d == Len(delivered)
           T == Total(d + 1)
<1>1. /\ TypeOK /\ d \in Nat /\ written \in Seq(FrameRecord) /\ d <= Len(written)
      /\ Frames(Unread, UnreadLen, d, written)
    BY DEF FInv, TypeOK, FrameRecord
<1>2. T \in Nat \ {0} /\ T = Size(written, d + 1)
    <2>1. written[d + 1] \in FrameRecord
        BY <1>1
    <2> QED
        BY <2>1, FramingAssumption DEF Total, Size, FrameRecord
<1>3. /\ delivered' = Append(delivered, d + 1)
      /\ UNCHANGED <<failed_, reader, written, stream>>
      /\ IF cursor_ + T = Len(buffer_) THEN buffer_' = <<>> /\ cursor_' = 0
                                       ELSE cursor_' = cursor_ + T /\ UNCHANGED buffer_
    BY DEF Consume
<1> HIDE DEF T
<1>4. /\ delivered' \in Seq(Nat) /\ Len(delivered') = d + 1
      /\ \A k \in 1 .. d : delivered'[k] = delivered[k]
      /\ delivered'[d + 1] = d + 1
    BY <1>1, <1>3 DEF TypeOK
<1>5. /\ buffer_ \in Seq(Labelled) /\ cursor_ \in Nat /\ cursor_ + T <= Len(buffer_)
      /\ Len(stream) \in Nat /\ Len(buffer_) \in Nat
    BY <1>1, <1>2 DEF TypeOK, Available, T
<1>6. TypeOK' /\ Available' = Available - T /\ Available - T \in Nat
    <2>1. CASE cursor_ + T = Len(buffer_)
        <3>1. buffer_' = <<>> /\ cursor_' = 0 /\ buffer_' \in Seq(Labelled) /\ Len(buffer_') = 0
            BY <1>3, <2>1
        <3>2. cursor_' \in 0 .. Len(buffer_')
            BY <3>1
        <3>3. TypeOK'
            BY <1>1, <1>3, <1>4, <3>1, <3>2 DEF TypeOK
        <3> QED
            BY <1>2, <1>5, <2>1, <3>1, <3>3 DEF Available
    <2>2. CASE cursor_ + T # Len(buffer_)
        <3>1. buffer_' = buffer_ /\ cursor_' = cursor_ + T /\ cursor_' \in 0 .. Len(buffer_')
            BY <1>2, <1>3, <1>5, <2>2
        <3>2. TypeOK'
            BY <1>1, <1>3, <1>4, <3>1 DEF TypeOK
        <3> QED
            BY <1>2, <1>5, <3>1, <3>2 DEF Available
    <2> QED
        BY <2>1, <2>2
<1>7. UnreadLen' = UnreadLen - T /\ UnreadLen \in Nat /\ T <= UnreadLen
    BY <1>1, <1>2, <1>3, <1>5, <1>6, UnreadBytes DEF UnreadLen, T
<1>8. ASSUME NEW j \in 1 .. UnreadLen - T PROVE Unread'[j] = Unread[j + T]
    <2>1. j + T \in 1 .. UnreadLen /\ Available \in Nat
        BY <1>1, <1>2, <1>7, UnreadBytes
    <2>2. Unread'[j] = IF j <= Available' THEN buffer_'[cursor_' + j] ELSE stream[j - Available']
        BY <1>3, <1>7 DEF Unread
    <2>3. Unread[j + T] = IF j + T <= Available THEN buffer_[cursor_ + (j + T)]
                                                ELSE stream[(j + T) - Available]
        BY <2>1 DEF Unread
    <2>4. CASE j + T <= Available
        <3>1. cursor_ + T # Len(buffer_)
            BY <1>2, <1>5, <2>1, <2>4 DEF Available
        <3>2. buffer_' = buffer_ /\ cursor_' = cursor_ + T
            BY <1>3, <3>1
        <3>3. j <= Available'
            BY <1>2, <1>6, <2>1, <2>4
        <3>4. cursor_ + T + j = cursor_ + (j + T)
            BY <1>2, <1>5
        <3> QED
            BY <2>2, <2>3, <2>4, <3>2, <3>3, <3>4
    <2>5. CASE ~(j + T <= Available)
        <3>1. ~(j <= Available') /\ j - Available' = (j + T) - Available
            BY <1>2, <1>6, <2>1, <2>5
        <3> QED
            BY <2>2, <2>3, <2>5, <3>1
    <2> QED
        BY <2>4, <2>5
<1>9. Frames(Unread, UnreadLen, Len(delivered), written)'
    <2> DEFINE v == Unread'
    <2> HIDE DEF v
    <2>1. Shifted(v, Unread, UnreadLen, T)
        BY <1>8 DEF v, Shifted
    <2>2. written[d + 1].fault # "Cut"
        BY DEF Acceptable
    <2>3. Frames(v, UnreadLen - T, d + 1, written)
        BY <1>1, <1>2, <1>7, <2>1, <2>2, DropFrame
    <2>4. Frames(v, UnreadLen', Len(delivered'), written')
        BY <1>3, <1>4, <1>7, <2>3
    <2> QED
        BY <2>4 DEF v, Frames, Belongs, Whole, Ordered, Size
<1>10. DeliveredIsPrefix'
    <2>1. \A k \in 1 .. d : Acceptable(k) /\ delivered[k] = k
        <3>1. DOMAIN delivered = 1 .. d
            BY <1>1 DEF TypeOK
        <3>2. delivered = [k \in 1 .. d |-> k] /\ \A k \in DOMAIN delivered : Acceptable(k)
            BY DEF FInv, DeliveredIsPrefix
        <3> QED
            BY <3>1, <3>2
    <2>2. \A k \in 1 .. d + 1 : Acceptable(k) /\ delivered'[k] = k
        BY <1>1, <1>4, <2>1
    <2>3. delivered' = [k \in 1 .. d + 1 |-> delivered'[k]] /\ DOMAIN delivered' = 1 .. d + 1
        BY <1>4
    <2>4. delivered' = [k \in 1 .. d + 1 |-> k]
        BY <2>2, <2>3
    <2>5. \A k \in 1 .. d + 1 : Acceptable(k)'
        BY <1>3, <2>2 DEF Acceptable
    <2> QED
        BY <1>4, <2>3, <2>4, <2>5 DEF DeliveredIsPrefix
<1>11. (Len(delivered) <= Len(written))' /\ RefusedAtFirstFault' /\ Waits'
    BY <1>1, <1>3, <1>4 DEF RefusedAtFirstFault, Waits
<1> QED
    BY <1>6, <1>9, <1>10, <1>11 DEF FInv

\* next finds nothing, refuses or returns the next frame, and each at its time.
LEMMA NextInv ==
    ASSUME FInv, next
    PROVE  FInv'
<1> DEFINE d == Len(delivered)
<1>1. /\ reader = "Next" /\ ~failed_ /\ UNCHANGED <<written, stream>>
      /\ TypeOK /\ d \in Nat /\ written \in Seq(FrameRecord) /\ d <= Len(written)
      /\ Available \in Nat /\ DOMAIN written = 1 .. Len(written)
    BY UnreadBytes DEF next, FInv, TypeOK, FrameRecord
<1>2. /\ kFrameHeaderBytes \in Nat /\ max_frame_bytes \in Nat
      /\ \A i \in DOMAIN written : /\ Total(i) = kFrameHeaderBytes + written[i].length
                                   /\ written[i].length \in Nat /\ Total(i) \in Nat
                                   /\ written[i].fault \in Fault
    <2>1. \A i \in DOMAIN written : written[i] \in FrameRecord
        BY <1>1
    <2> QED
        BY <2>1, FramingAssumption DEF Total, FrameRecord
<1>3. d < Len(written) => d + 1 \in DOMAIN written
    BY <1>1
<1>4. CASE Available < kFrameHeaderBytes /\ NotFound
    <2>1. Available < kFrameHeaderBytes + max_frame_bytes
        BY <1>1, <1>2, <1>4
    <2>2. d < Len(written) => Available < Total(d + 1)
        BY <1>1, <1>2, <1>3, <1>4
    <2> QED
        BY <1>1, <1>4, <2>1, <2>2, NotFoundInv
<1>5. CASE /\ Available >= kFrameHeaderBytes
           /\ ~ \E i \in DOMAIN written : HeaderOf(i)
           /\ Refuse \/ (Available < kFrameHeaderBytes + max_frame_bytes /\ NotFound)
    <2>1. d < Len(written) /\ ~Acceptable(d + 1)
        <3>1. d < Len(written) /\ (written[d + 1].fault # "Cut" => HeaderOf(d + 1))
            BY <1>1, <1>5, HeaderIsNext
        <3> QED
            BY <1>3, <1>5, <3>1 DEF Acceptable
    <2> QED
        BY <1>1, <1>5, <2>1, NotFoundInv, RefuseInv
<1>6. ASSUME Available >= kFrameHeaderBytes, NEW i \in DOMAIN written, HeaderOf(i),
             \/ /\ written[i].fault \in {"Magic", "Flags"} \/ LengthTooLarge(i)
                /\ Refuse
             \/ /\ written[i].fault \notin {"Magic", "Flags"} /\ ~LengthTooLarge(i)
                /\ \/ Available < Total(i) /\ NotFound
                   \/ Available >= Total(i) /\ PayloadMatches(i) /\ Consume(i)
                   \/ Available >= Total(i) /\ ~PayloadMatches(i) /\ Refuse
      PROVE  FInv'
    <2>1. d < Len(written) /\ i = d + 1
        BY <1>1, <1>6, HeaderIsNext
    <2>2. CASE (written[i].fault \in {"Magic", "Flags"} \/ LengthTooLarge(i)) /\ Refuse
        <3>1. ~Acceptable(i)
            BY <1>2, <1>6, <2>2 DEF Acceptable, LengthTooLarge
        <3> QED
            BY <1>1, <2>1, <2>2, <3>1, RefuseInv
    <2>3. CASE ~LengthTooLarge(i) /\ Available < Total(i) /\ NotFound
        <3>1. Available < kFrameHeaderBytes + max_frame_bytes
            <4>1. written[i].length <= max_frame_bytes
                BY <1>2, <1>6, <2>3 DEF LengthTooLarge
            <4> QED
                BY <1>1, <1>2, <1>6, <2>3, <4>1
        <3> QED
            BY <1>1, <2>1, <2>3, <3>1, NotFoundInv
    <2>4. CASE /\ written[i].fault \notin {"Magic", "Flags"} /\ ~LengthTooLarge(i)
               /\ Available >= Total(i) /\ PayloadMatches(i) /\ Consume(i)
        <3>1. written[i].fault # "Cut" /\ written[i].fault # "Payload"
            BY <1>1, <2>1, <2>4, PayloadIsNext DEF PayloadMatches
        <3>2. Acceptable(i)
            BY <1>2, <1>6, <2>4, <3>1 DEF Acceptable, LengthTooLarge, Fault
        <3> QED
            BY <1>1, <2>1, <2>4, <3>2, ConsumeInv
    <2>5. CASE Available >= Total(i) /\ ~PayloadMatches(i) /\ Refuse
        <3>1. ~Acceptable(i)
            BY <1>1, <2>1, <2>5, PayloadIsNext DEF PayloadMatches, Acceptable
        <3> QED
            BY <1>1, <2>1, <2>5, <3>1, RefuseInv
    <2> QED
        BY <1>6, <2>2, <2>3, <2>4, <2>5
<1> QED
    BY <1>4, <1>5, <1>6 DEF next

\* A chunk is taken from the stream and put behind what is buffered, which is moved
\* to the front; it always fits.
LEMMA ReceiveInv ==
    ASSUME FInv, receive
    PROVE  FInv'
<1>1. /\ TypeOK /\ Len(delivered) \in Nat /\ written \in Seq(FrameRecord)
      /\ Frames(Unread, UnreadLen, Len(delivered), written)
      /\ Available < kFrameHeaderBytes + max_frame_bytes
      /\ reader' = "Next" /\ UNCHANGED <<written, delivered>> /\ ~failed_
    BY DEF receive, FInv, TypeOK, FrameRecord, Waits
<1>2. PICK n \in 1 .. kReceiveChunk : /\ n <= Len(stream)
                                     /\ push(SubSeq(stream, 1, n))
                                     /\ stream' = SubSeq(stream, n + 1, Len(stream))
    BY DEF receive
<1>3. /\ kFrameHeaderBytes \in Nat /\ max_frame_bytes \in Nat
      /\ n \in Nat /\ 1 <= n /\ n <= kFrameHeaderBytes + max_frame_bytes
    BY FramingAssumption
<1>4. /\ stream \in Seq(Labelled) /\ buffer_ \in Seq(Labelled) /\ Len(stream) \in Nat
      /\ Len(buffer_) \in Nat /\ cursor_ \in 0 .. Len(buffer_)
      /\ Available = Len(buffer_) - cursor_ /\ Available \in Nat
    BY <1>1 DEF TypeOK, Available
<1> DEFINE chunk == SubSeq(stream, 1, n)
           rest == SubSeq(buffer_, cursor_ + 1, Len(buffer_))
           room == 2 * (max_frame_bytes + kFrameHeaderBytes)
<1>5. /\ chunk \in Seq(Labelled) /\ Len(chunk) = n
      /\ \A j \in 1 .. n : chunk[j] = stream[j]
    <2>1. /\ SubSeq(stream, 0 + 1, n) \in Seq(Labelled) /\ Len(SubSeq(stream, 0 + 1, n)) = n - 0
          /\ \A m \in 1 .. n - 0 : SubSeq(stream, 0 + 1, n)[m] = stream[0 + m]
        BY <1>2, <1>3, <1>4, Slice
    <2>2. 0 + 1 = 1 /\ n - 0 = n /\ \A m \in 1 .. n : 0 + m = m
        BY <1>3
    <2> QED
        BY <2>1, <2>2
<1>6. /\ rest \in Seq(Labelled) /\ Len(rest) = Available
      /\ \A j \in 1 .. Available : rest[j] = buffer_[cursor_ + j]
    BY <1>4, Slice
<1>7. /\ stream' \in Seq(Labelled) /\ Len(stream') = Len(stream) - n
      /\ \A j \in 1 .. Len(stream) - n : stream'[j] = stream[n + j]
    BY <1>2, <1>3, <1>4, Slice
<1>8. /\ rest \o chunk \in Seq(Labelled) /\ Len(rest \o chunk) = Available + n
      /\ \A j \in 1 .. Available + n :
            (rest \o chunk)[j] = IF j <= Available THEN rest[j] ELSE chunk[j - Available]
    BY <1>5, <1>6, ConcatProperties
<1>9. room \in Nat /\ ~(n > room) /\ ~(Available + n > room)
    BY <1>1, <1>3, <1>4
<1>10. buffer_' = rest \o chunk /\ cursor_' = 0 /\ failed_' = FALSE
    <2>1. /\ cursor_' = 0
          /\ buffer_' = IF Len(chunk) > room THEN rest ELSE rest \o chunk
          /\ failed_' = (Len(chunk) > room \/ Len(buffer_') > room)
        BY <1>2 DEF push
    <2> HIDE DEF chunk, rest, room
    <2>2. buffer_' = rest \o chunk
        BY <1>5, <1>9, <2>1
    <2> QED
        BY <1>5, <1>8, <1>9, <2>1, <2>2
<1> HIDE DEF chunk, rest, room
<1>11. TypeOK'
    <2>1. cursor_' \in 0 .. Len(buffer_')
        BY <1>3, <1>4, <1>8, <1>10
    <2> QED
        BY <1>1, <1>7, <1>8, <1>10, <2>1 DEF TypeOK
<1>12. Available' = Available + n /\ UnreadLen' = UnreadLen /\ UnreadLen = Available + Len(stream)
    <2>1. Available' = Available + n
        BY <1>3, <1>4, <1>8, <1>10 DEF Available
    <2>2. UnreadLen' = Available' + Len(stream') /\ UnreadLen = Available + Len(stream)
        BY DEF UnreadLen
    <2> QED
        BY <1>3, <1>4, <1>7, <2>1, <2>2
<1>13. ASSUME NEW j \in 1 .. UnreadLen PROVE Unread'[j] = Unread[j]
    <2>1. j \in 1 .. Available + Len(stream)
        BY <1>12
    <2>2. Unread'[j] = IF j <= Available + n THEN (rest \o chunk)[j]
                                             ELSE stream'[j - (Available + n)]
        <3>1. Unread'[j] = IF j <= Available' THEN buffer_'[cursor_' + j]
                                              ELSE stream'[j - Available']
            BY <1>12 DEF Unread
        <3>2. cursor_' + j = j
            BY <1>10
        <3> QED
            BY <1>10, <1>12, <3>1, <3>2
    <2>3. Unread[j] = IF j <= Available THEN buffer_[cursor_ + j] ELSE stream[j - Available]
        BY DEF Unread
    <2>4. CASE j <= Available
        <3>1. j \in 1 .. Available /\ j \in 1 .. Available + n /\ j <= Available + n
            BY <1>3, <1>4, <2>4
        <3> QED
            BY <1>6, <1>8, <2>2, <2>3, <2>4, <3>1
    <2>5. CASE j > Available /\ j <= Available + n
        <3>1. j - Available \in 1 .. n /\ j \in 1 .. Available + n /\ ~(j <= Available)
            BY <1>3, <1>4, <2>5
        <3> QED
            BY <1>5, <1>8, <2>2, <2>3, <2>5, <3>1
    <2>6. CASE j > Available + n
        <3>1. /\ j - (Available + n) \in 1 .. Len(stream) - n
              /\ n + (j - (Available + n)) = j - Available
              /\ ~(j <= Available) /\ ~(j <= Available + n)
            BY <1>3, <1>4, <2>1, <2>6
        <3> QED
            BY <1>7, <2>2, <2>3, <3>1
    <2> QED
        BY <1>3, <1>4, <2>4, <2>5, <2>6
<1>14. Frames(Unread, UnreadLen, Len(delivered), written)'
    <2> DEFINE v == Unread'
    <2> HIDE DEF v
    <2>1. Copies(v, Unread, UnreadLen)
        BY <1>13 DEF v, Copies
    <2>2. UnreadLen \in Nat
        BY <1>1, UnreadBytes
    <2>3. Frames(v, UnreadLen, Len(delivered), written)
        BY <1>1, <2>1, <2>2, SameFrames
    <2>4. Frames(v, UnreadLen', Len(delivered'), written')
        BY <1>1, <1>12, <2>3
    <2> QED
        BY <2>4 DEF v, Frames, Belongs, Whole, Ordered, Size
<1>15. (Len(delivered) <= Len(written) /\ DeliveredIsPrefix /\ RefusedAtFirstFault /\ Waits)'
    BY <1>1, <1>10 DEF FInv, DeliveredIsPrefix, Acceptable, RefusedAtFirstFault, Waits
<1> QED
    BY <1>11, <1>14, <1>15 DEF FInv

\* Asking again, and a step that changes nothing.
LEMMA AskInv ==
    ASSUME FInv, UNCHANGED <<written, stream, buffer_, cursor_, failed_, delivered>>,
           reader' = reader \/ reader' = "Next"
    PROVE  FInv'
<1>1. TypeOK'
    BY DEF FInv, TypeOK
<1>2. (Len(delivered) <= Len(written) /\ DeliveredIsPrefix /\ RefusedAtFirstFault)'
    BY DEF FInv, DeliveredIsPrefix, RefusedAtFirstFault, Acceptable
<1>3. Available' = Available /\ UnreadLen' = UnreadLen
    BY DEF Available, UnreadLen
<1>4. Unread' = Unread
    BY <1>3 DEF Unread
<1>5. ASSUME ~failed_ PROVE Frames(Unread, UnreadLen, Len(delivered), written)'
    BY <1>3, <1>4, <1>5 DEF FInv, Frames, Belongs, Whole, Ordered, Size
<1>6. ASSUME ~failed_ PROVE Waits'
    BY <1>3, <1>6 DEF FInv, Waits, Acceptable, Total
<1> QED
    BY <1>1, <1>2, <1>5, <1>6 DEF FInv

\* Every step keeps the invariant.
LEMMA FInvNext == FInv /\ [Next]_vars => FInv'
<1> SUFFICES ASSUME FInv, [Next]_vars PROVE FInv'
    OBVIOUS
<1> USE FramingAssumption
<1>1. ASSUME NEW length \in Nat, encode_frame(length) PROVE FInv'
    <2>1. kFrameHeaderBytes + length \in 1 .. kFrameHeaderBytes + length
        OBVIOUS
    <2> QED
        BY <1>1, <2>1, WriteInv DEF encode_frame, Fault
<1>2. ASSUME NEW length \in Lengths, send(length) PROVE FInv'
    BY <1>1, <1>2 DEF send
<1>3. ASSUME NEW length \in Lengths, send_fails(length) PROVE FInv'
    <2>1. PICK n \in 1 .. kFrameHeaderBytes + length - 1 : Write(length, "Cut", n)
        BY <1>3 DEF send_fails
    <2>2. n \in 1 .. kFrameHeaderBytes + length /\ n < kFrameHeaderBytes + length
        BY <2>1
    <2> QED
        BY <2>1, <2>2, WriteInv DEF Fault
<1>4. ASSUME NEW length \in Lengths, NEW fault \in {"Magic", "Flags", "Payload"},
             send_malformed(length, fault)
      PROVE  FInv'
    <2>1. kFrameHeaderBytes + length \in 1 .. kFrameHeaderBytes + length
        OBVIOUS
    <2> QED
        BY <1>4, <2>1, WriteInv DEF send_malformed, Fault
<1>5. CASE next
    BY <1>5, NextInv
<1>6. CASE receive
    BY <1>6, ReceiveInv
<1>7. CASE ask_again
    BY <1>7, AskInv DEF ask_again
<1>8. CASE UNCHANGED vars
    BY <1>8, AskInv DEF vars
<1> QED
    BY <1>2, <1>3, <1>4, <1>5, <1>6, <1>7, <1>8 DEF Next

\* The invariant holds in every reachable state.
LEMMA FInvAlways == Spec => []FInv
<1> QED
    BY FInvInit, FInvNext, PTL DEF Spec

------------------------------------------------------------------------------
(* The theorems *)

\* What FrameDecoder::next returns is the frames that were written, in order, none
\* left out, none twice, none damaged or merged: for any sizes, and however the
\* stream is cut into chunks.
THEOREM DeliversWhatWasWritten == Spec => []DeliveredIsPrefix
<1>1. FInv => DeliveredIsPrefix
    BY DEF FInv
<1> QED
    BY <1>1, FInvAlways, PTL

\* The decoder fails only at the first frame that is not acceptable; its buffer
\* bound never makes it refuse what was written correctly, as long as one chunk is
\* no larger than a header and the largest frame.
THEOREM RefusesAtFirstFault == Spec => []RefusedAtFirstFault
<1>1. FInv => RefusedAtFirstFault
    BY DEF FInv
<1> QED
    BY <1>1, FInvAlways, PTL

\* A reader that waits while nothing is on its way has been given every acceptable
\* frame before the first fault.
THEOREM LeavesNothingBehind == Spec => []NothingLeftBehind
<1>1. ASSUME FInv PROVE NothingLeftBehind
    <2> DEFINE d == Len(delivered)
    <2> SUFFICES ASSUME reader = "Receive", ~failed_, stream = <<>>, d < Len(written),
                        Acceptable(d + 1)
                 PROVE  FALSE
        BY DEF NothingLeftBehind
    <2>1. /\ TypeOK /\ d \in Nat /\ written \in Seq(FrameRecord)
          /\ Frames(Unread, UnreadLen, d, written)
        BY <1>1 DEF FInv, TypeOK, FrameRecord
    <2>2. UnreadLen = Available /\ Available \in Nat
        BY <2>1, UnreadBytes
    <2>3. Available < Total(d + 1)
        BY <1>1 DEF FInv, Waits
    <2>4. Size(written, d + 1) \in 1 .. UnreadLen
        BY <2>1, <2>2, NextFrame DEF Acceptable, Front
    <2> QED
        BY <2>2, <2>3, <2>4 DEF Size, Total
<1> QED
    BY <1>1, FInvAlways, PTL

------------------------------------------------------------------------------
(* Texts: the scan *)

\* A scan of n bytes, with U the pairs of a position and the length of a character
\* there: it tells from which positions characters lead to the end.
IsScan(f, n, U) ==
    f = [i \in 1 .. n + 1 |-> i = n + 1 \/ \E k \in 1 .. 4 : <<i, k>> \in U /\ f[i + k]]

\* The positions of n bytes and the lengths of what may be there.
Units(n) == {u \in (1 .. n) \X (1 .. 4) : u[1] + u[2] <= n + 1}

\* There is a scan: the least set that holds the end, and every position from which
\* one character leads into it.
LEMMA ScanExists ==
    ASSUME NEW n \in Nat, NEW U \in SUBSET Units(n)
    PROVE  \E f : IsScan(f, n, U)
<1> DEFINE P == 1 .. n + 1
           Closed(S) == /\ n + 1 \in S
                        /\ \A i \in P : \A k \in 1 .. 4 : <<i, k>> \in U /\ i + k \in S => i \in S
           f == [i \in P |-> \A S \in SUBSET P : Closed(S) => i \in S]
           Leads(i) == i = n + 1 \/ \E k \in 1 .. 4 : <<i, k>> \in U /\ f[i + k]
           T == {i \in P : Leads(i)}
<1>1. ASSUME NEW i \in P, NEW k \in 1 .. 4, <<i, k>> \in U PROVE i + k \in P
    BY <1>1 DEF Units
<1>2. ASSUME NEW i \in P, Leads(i) PROVE f[i]
    <2> SUFFICES ASSUME NEW S \in SUBSET P, Closed(S) PROVE i \in S
        OBVIOUS
    <2>1. CASE i = n + 1
        BY <2>1
    <2>2. CASE \E k \in 1 .. 4 : <<i, k>> \in U /\ f[i + k]
        <3>1. PICK k \in 1 .. 4 : <<i, k>> \in U /\ f[i + k]
            BY <2>2
        <3>2. i + k \in P
            BY <1>1, <3>1
        <3>3. i + k \in S
            BY <3>1, <3>2
        <3> QED
            BY <3>1, <3>3
    <2> QED
        BY <1>2, <2>1, <2>2
<1>3. Closed(T)
    <2>1. n + 1 \in T
        OBVIOUS
    <2>2. ASSUME NEW i \in P, NEW k \in 1 .. 4, <<i, k>> \in U, i + k \in T PROVE i \in T
        <3>1. f[i + k]
            BY <1>2, <2>2
        <3> QED
            BY <2>2, <3>1
    <2> QED
        BY <2>1, <2>2
<1>4. ASSUME NEW i \in P PROVE f[i] <=> Leads(i)
    BY <1>2, <1>3
<1>5. \A i \in P : f[i] = Leads(i)
    <2>1. \A i \in P : f[i] \in BOOLEAN
        OBVIOUS
    <2> HIDE DEF f
    <2> QED
        BY <1>4, <2>1
<1>6. f = [i \in P |-> Leads(i)]
    <2>1. f = [i \in P |-> f[i]]
        OBVIOUS
    <2> HIDE DEF f, Leads
    <2> QED
        BY <1>5, <2>1
<1> QED
    BY <1>6 DEF IsScan


\* With more characters a scan gets to the end from no fewer positions: the last
\* position where it would fail to has none after it.
LEMMA ScanGrows ==
    ASSUME NEW n \in Nat, NEW V \in SUBSET Units(n), NEW U \in SUBSET V,
           NEW f, IsScan(f, n, U), NEW g, IsScan(g, n, V), f[1]
    PROVE  g[1]
<1> DEFINE P == 1 .. n + 1
           Lost == {i \in P : f[i] /\ ~g[i]}
           Left == {n + 1 - i : i \in Lost}
<1>1. /\ \A i \in P : f[i] <=> (i = n + 1 \/ \E k \in 1 .. 4 : <<i, k>> \in U /\ f[i + k])
      /\ \A i \in P : g[i] <=> (i = n + 1 \/ \E k \in 1 .. 4 : <<i, k>> \in V /\ g[i + k])
    BY DEF IsScan
<1>2. ASSUME Lost # {} PROVE FALSE
    <2>1. Left \in SUBSET Nat /\ Left # {}
        BY <1>2
    <2>2. PICK x \in Left : \A y \in Left : ~(<<y, x>> \in OpToRel(<, Nat))
        <3> HIDE DEF Left
        <3> QED
            BY <2>1, NatLessThanWellFounded, WFMin
    <2>3. PICK i \in Lost : x = n + 1 - i
        OBVIOUS
    <2>4. ASSUME NEW j \in Lost, i < j PROVE FALSE
        <3>1. n + 1 - j \in Left /\ n + 1 - j < n + 1 - i /\ n + 1 - j \in Nat /\ x \in Nat
            BY <2>1, <2>4
        <3> QED
            BY <2>2, <2>3, <3>1 DEF OpToRel
    <2>5. i \in P /\ f[i] /\ ~g[i]
        OBVIOUS
    <2>6. i # n + 1
        BY <1>1, <2>5
    <2>7. PICK k \in 1 .. 4 : <<i, k>> \in U /\ f[i + k]
        BY <1>1, <2>5, <2>6
    <2>8. <<i, k>> \in V /\ i + k \in P /\ i < i + k
        BY <2>5, <2>7 DEF Units
    <2>9. ~g[i + k]
        BY <1>1, <2>5, <2>8
    <2> QED
        BY <2>4, <2>7, <2>8, <2>9
<1>3. 1 \in P
    OBVIOUS
<1> QED
    BY <1>2, <1>3

\* The characters that the reader's check finds in a text, and those of the table.
Accepts(t, i, k) ==
    LET unit == SubSeq(t, i, i + k - 1) IN
    /\ k = Extra(t[i]) + 1
    /\ \A j \in 1 .. k - 1 : IsContinuation(unit[j + 1])
    /\ CodeAdmitted(k - 1, t[i], Code(unit))
Characters(t) == {u \in Units(Len(t)) : Accepts(t, u[1], u[2])}
TableCharacters(t) == {u \in Units(Len(t)) : WellFormedUnit(SubSeq(t, u[1], u[1] + u[2] - 1))}

\* How many bytes a character may have.
LEMMA ExtraRange == ASSUME NEW b \in Byte PROVE Extra(b) \in -1 .. 3
BY DEF Extra

\* The reader's check is a scan for its characters.
LEMMA ValidIsScan ==
    ASSUME NEW t \in Seq(Byte)
    PROVE  is_valid_utf8(t) = (CHOOSE f : IsScan(f, Len(t), Characters(t)))[1]
<1> DEFINE n == Len(t)
           B(f, i) == \/ i = n + 1
                      \/ /\ Extra(t[i]) >= 0
                         /\ i + Extra(t[i]) <= n
                         /\ \A k \in 1 .. Extra(t[i]) :
                               IsContinuation(SubSeq(t, i, i + Extra(t[i]))[k + 1])
                         /\ CodeAdmitted(Extra(t[i]), t[i], Code(SubSeq(t, i, i + Extra(t[i]))))
                         /\ f[i + Extra(t[i]) + 1]
           A(f) == f = [i \in 1 .. n + 1 |-> B(f, i)]
           C(f, i) == i = n + 1 \/ \E k \in 1 .. 4 : <<i, k>> \in Characters(t) /\ f[i + k]
<1>0. n \in Nat
    OBVIOUS
<1>1. is_valid_utf8(t) = (CHOOSE f : A(f))[1]
    BY DEF is_valid_utf8
<1>2. ASSUME NEW f PROVE A(f) <=> IsScan(f, n, Characters(t))
    <2>1. ASSUME NEW i \in 1 .. n + 1 PROVE B(f, i) = C(f, i)
        <3>1. CASE i = n + 1
            BY <3>1
        <3>2. CASE i \in 1 .. n
            <4> DEFINE e == Extra(t[i])
            <4>1. e \in -1 .. 3
                BY <3>2, ExtraRange
            <4>2. e >= 0 => i + e = i + (e + 1) - 1 /\ e = (e + 1) - 1 /\ i + e + 1 = i + (e + 1)
                BY <4>1, <3>2
            <4>3. \A k \in 1 .. 4 : <<i, k>> \in Units(n) <=> i + k <= n + 1
                BY <3>2 DEF Units
            <4>4. ASSUME NEW k \in 1 .. 4
                  PROVE  <<i, k>> \in Characters(t) <=> i + k <= n + 1 /\ Accepts(t, i, k)
                BY <4>3 DEF Characters
            <4>5. ASSUME B(f, i) PROVE C(f, i)
                <5>1. /\ e + 1 \in 1 .. 4
                      /\ i + (e + 1) <= n + 1
                      /\ f[i + (e + 1)]
                    BY <1>0, <4>1, <4>2, <4>5, <3>2
                <5>2. Accepts(t, i, e + 1)
                    BY <4>1, <4>2, <4>5, <3>2 DEF Accepts
                <5> HIDE DEF e
                <5> QED
                    BY <4>4, <5>1, <5>2
            <4>6. ASSUME C(f, i) PROVE B(f, i)
                <5>1. PICK k \in 1 .. 4 : <<i, k>> \in Characters(t) /\ f[i + k]
                    BY <4>6, <3>2
                <5>2. i + k <= n + 1 /\ Accepts(t, i, k)
                    BY <4>4, <5>1
                <5>3. k = e + 1 /\ e >= 0
                    BY <4>1, <5>2 DEF Accepts
                <5>4. i + k - 1 = i + e /\ k - 1 = e /\ i + k = i + e + 1 /\ i + e <= n
                    <6> HIDE DEF e, n
                    <6> QED
                        BY <1>0, <3>2, <4>1, <5>2, <5>3
                <5> QED
                    BY <5>1, <5>2, <5>3, <5>4 DEF Accepts
            <4> QED
                BY <4>5, <4>6
        <3>3. i = n + 1 \/ i \in 1 .. n
            BY <1>0
        <3> HIDE DEF B, C
        <3> QED
            BY <3>1, <3>2, <3>3
    <2> HIDE DEF B, C
    <2>2. [i \in 1 .. n + 1 |-> B(f, i)] = [i \in 1 .. n + 1 |-> C(f, i)]
        BY <2>1
    <2> QED
        BY <2>2 DEF IsScan, B, C
<1> HIDE DEF A
<1>3. (CHOOSE f : A(f)) = (CHOOSE f : IsScan(f, n, Characters(t)))
    BY <1>2, Zenon
<1> QED
    BY <1>1, <1>3

\* And so is the definition of well-formed text, for the characters of the table.
LEMMA WellFormedIsScan ==
    ASSUME NEW t \in Seq(Byte)
    PROVE  WellFormed(t) = (CHOOSE f : IsScan(f, Len(t), TableCharacters(t)))[1]
<1> DEFINE n == Len(t)
           B(f, i) == \/ i = n + 1
                      \/ \E k \in 1 .. 4 : /\ i + k - 1 <= n
                                           /\ WellFormedUnit(SubSeq(t, i, i + k - 1))
                                           /\ f[i + k]
           A(f) == f = [i \in 1 .. n + 1 |-> B(f, i)]
           C(f, i) == i = n + 1 \/ \E k \in 1 .. 4 : <<i, k>> \in TableCharacters(t) /\ f[i + k]
<1>0. n \in Nat
    OBVIOUS
<1>1. WellFormed(t) = (CHOOSE f : A(f))[1]
    BY DEF WellFormed
<1>2. ASSUME NEW f PROVE A(f) <=> IsScan(f, n, TableCharacters(t))
    <2>1. ASSUME NEW i \in 1 .. n + 1 PROVE B(f, i) = C(f, i)
        <3>1. CASE i = n + 1
            BY <3>1
        <3>2. CASE i \in 1 .. n
            <4>1. ASSUME NEW k \in 1 .. 4
                  PROVE  <<i, k>> \in TableCharacters(t) <=>
                            i + k - 1 <= n /\ WellFormedUnit(SubSeq(t, i, i + k - 1))
                <5>1. <<i, k>> \in Units(n) <=> i + k - 1 <= n
                    BY <3>2 DEF Units
                <5> QED
                    BY <5>1 DEF TableCharacters
            <4> QED
                BY <4>1
        <3>3. i = n + 1 \/ i \in 1 .. n
            BY <1>0
        <3> HIDE DEF B, C
        <3> QED
            BY <3>1, <3>2, <3>3
    <2> HIDE DEF B, C
    <2>2. [i \in 1 .. n + 1 |-> B(f, i)] = [i \in 1 .. n + 1 |-> C(f, i)]
        BY <2>1
    <2> QED
        BY <2>2 DEF IsScan, B, C
<1> HIDE DEF A
<1>3. (CHOOSE f : A(f)) = (CHOOSE f : IsScan(f, n, TableCharacters(t)))
    BY <1>2, Zenon
<1> QED
    BY <1>1, <1>3

------------------------------------------------------------------------------
(* Texts: the characters *)

\* The lead byte 0xC1 taken like 0xC2.
AsTable(b) == IF b = 193 THEN 194 ELSE b
Mended(t) == [i \in DOMAIN t |-> AsTable(t[i])]

\* The lead bytes by their ranges, and the bits of each that count.
LEMMA LeadBytes ==
    ASSUME NEW a \in Byte
    PROVE  /\ Extra(a) = 0 <=> a \in 0 .. 127
           /\ Extra(a) = 1 <=> a \in 192 .. 223
           /\ Extra(a) = 2 <=> a \in 224 .. 239
           /\ Extra(a) = 3 <=> a \in 240 .. 247
           /\ a \in 192 .. 223 => a % 32 = a - 192
           /\ a \in 224 .. 239 => a % 16 = a - 224
           /\ a \in 240 .. 247 => a % 8 = a - 240
<1>1. /\ a \div 32 = 6 <=> a \in 192 .. 223
      /\ a \div 16 = 14 <=> a \in 224 .. 239
      /\ a \div 8 = 30 <=> a \in 240 .. 247
    BY DEF Byte
<1>2. /\ a \in 192 .. 223 => a % 32 = a - 192
      /\ a \in 224 .. 239 => a % 16 = a - 224
      /\ a \in 240 .. 247 => a % 8 = a - 240
    BY DEF Byte
<1>3. /\ a \in 0 .. 127 => Extra(a) = 0
      /\ a \in 192 .. 223 => Extra(a) = 1
      /\ a \in 224 .. 239 => Extra(a) = 2
      /\ a \in 240 .. 247 => Extra(a) = 3
      /\ a \notin 0 .. 127 \cup 192 .. 247 => Extra(a) = -1
    BY <1>1 DEF Extra, Byte
<1> QED
    BY <1>2, <1>3 DEF Byte

LEMMA FollowingBytes ==
    ASSUME NEW b \in Byte
    PROVE  /\ IsContinuation(b) <=> b \in 128 .. 191
           /\ b \in 128 .. 191 => b % 64 = b - 128
           /\ b \in 128 .. 191 <=> AsTable(b) \in 128 .. 191
BY DEF IsContinuation, Byte, AsTable

\* The value of a character of three and of four bytes, and the second bytes that the
\* table has after a lead byte.
Spelt3(a, b, c) == ((a % 16) * 64 + (b % 64)) * 64 + (c % 64)
Admitted3(a, b) ==
    \/ a = 224 /\ b \in 160 .. 191
    \/ a \in 225 .. 236 \/ a \in 238 .. 239
    \/ a = 237 /\ b \in 128 .. 159
Spelt4(a, b, c, d) == (((a % 8) * 64 + (b % 64)) * 64 + (c % 64)) * 64 + (d % 64)
Admitted4(a, b) ==
    \/ a = 240 /\ b \in 144 .. 191
    \/ a \in 241 .. 243
    \/ a = 244 /\ b \in 128 .. 143

\* The values of characters of two, three and four bytes, and which of them are
\* admitted.
LEMMA TwoByteCodes ==
    ASSUME NEW a \in 192 .. 223, NEW b \in 128 .. 191
    PROVE  CodeAdmitted(1, a, (a % 32) * 64 + (b % 64)) <=> AsTable(a) \in 194 .. 223
<1>1. a % 32 = a - 192 /\ b % 64 = b - 128
    <2>1. a \in Byte /\ b \in Byte
        BY DEF Byte
    <2> QED
        BY <2>1, LeadBytes, FollowingBytes
<1> DEFINE v == (a - 192) * 64 + (b - 128)
<1>2. v \in 0 .. 2047
    OBVIOUS
<1> HIDE DEF v
<1>3. CodeAdmitted(1, a, v) <=> a # 192
    BY <1>1, <1>2 DEF CodeAdmitted
<1>4. a # 192 <=> AsTable(a) \in 194 .. 223
    BY DEF AsTable
<1> QED
    BY <1>1, <1>3, <1>4 DEF v

LEMMA ThreeByteCodes ==
    ASSUME NEW a \in 224 .. 239, NEW b \in 128 .. 191, NEW c \in 128 .. 191
    PROVE  CodeAdmitted(2, a, Spelt3(a, b, c)) <=> Admitted3(a, b)
<1>1. a % 16 = a - 224 /\ b % 64 = b - 128 /\ c % 64 = c - 128
    <2>1. a \in Byte /\ b \in Byte /\ c \in Byte
        BY DEF Byte
    <2> QED
        BY <2>1, LeadBytes, FollowingBytes
<1> DEFINE v == ((a - 224) * 64 + (b - 128)) * 64 + (c - 128)
<1>2. v \in Nat /\ v <= 1114111
    <2> DEFINE h == (a - 224) * 64 + (b - 128)
    <2>1. h \in 0 .. 1023
        OBVIOUS
    <2> HIDE DEF h
    <2>2. h * 64 + (c - 128) \in Nat /\ h * 64 + (c - 128) <= 1114111
        BY <2>1
    <2> QED
        BY <2>2 DEF h
<1>3. v >= 2048 <=> a # 224 \/ b \in 160 .. 191
    OBVIOUS
<1>4. v \notin 55296 .. 57343 <=> a # 237 \/ b \in 128 .. 159
    OBVIOUS
<1> HIDE DEF v
<1>5. CodeAdmitted(2, a, v) <=> v >= 2048 /\ v \notin 55296 .. 57343
    BY <1>2 DEF CodeAdmitted
<1>6. CodeAdmitted(2, a, v) <=>
              \/ a = 224 /\ b \in 160 .. 191
              \/ a \in 225 .. 236 \/ a \in 238 .. 239
              \/ a = 237 /\ b \in 128 .. 159
    BY <1>3, <1>4, <1>5
<1> QED
    BY <1>1, <1>6 DEF v, Spelt3, Admitted3

LEMMA FourByteCodes ==
    ASSUME NEW a \in 240 .. 247, NEW b \in 128 .. 191, NEW c \in 128 .. 191, NEW d \in 128 .. 191
    PROVE  CodeAdmitted(3, a, Spelt4(a, b, c, d)) <=> Admitted4(a, b)
<1>1. a % 8 = a - 240 /\ b % 64 = b - 128 /\ c % 64 = c - 128 /\ d % 64 = d - 128
    <2>1. a \in Byte /\ b \in Byte /\ c \in Byte /\ d \in Byte
        BY DEF Byte
    <2> QED
        BY <2>1, LeadBytes, FollowingBytes
<1> DEFINE v == (((a - 240) * 64 + (b - 128)) * 64 + (c - 128)) * 64 + (d - 128)
<1>2. v \in Nat
    OBVIOUS
<1>3. v >= 65536 <=> a # 240 \/ b \in 144 .. 191
    OBVIOUS
<1>4. v <= 1114111 <=> a \in 240 .. 243 \/ (a = 244 /\ b \in 128 .. 143)
    OBVIOUS
<1> HIDE DEF v
<1>5. CodeAdmitted(3, a, v) <=> v >= 65536 /\ v <= 1114111
    BY <1>2 DEF CodeAdmitted
<1>6. CodeAdmitted(3, a, v) <=>
              \/ a = 240 /\ b \in 144 .. 191
              \/ a \in 241 .. 243
              \/ a = 244 /\ b \in 128 .. 143
    BY <1>3, <1>4, <1>5
<1> QED
    BY <1>1, <1>6 DEF v, Spelt4, Admitted4

\* The lengths of a character one by one: the check and the table agree.
LEMMA OneByte ==
    ASSUME NEW a \in Byte
    PROVE  (1 = Extra(a) + 1 /\ CodeAdmitted(0, a, a)) <=> AsTable(a) \in 0 .. 127
<1>1. 1 = Extra(a) + 1 <=> a \in 0 .. 127
    BY LeadBytes, ExtraRange
<1>2. a \in 0 .. 127 => CodeAdmitted(0, a, a)
    BY DEF CodeAdmitted
<1>3. a \in 0 .. 127 <=> AsTable(a) \in 0 .. 127
    BY DEF AsTable, Byte
<1> QED
    BY <1>1, <1>2, <1>3

LEMMA TwoBytes ==
    ASSUME NEW a \in Byte, NEW b \in Byte
    PROVE  (/\ 2 = Extra(a) + 1 /\ IsContinuation(b)
            /\ CodeAdmitted(1, a, (a % 32) * 64 + (b % 64))) <=>
              AsTable(a) \in 194 .. 223 /\ AsTable(b) \in 128 .. 191
<1> DEFINE X == CodeAdmitted(1, a, (a % 32) * 64 + (b % 64))
<1>1. 2 = Extra(a) + 1 <=> a \in 192 .. 223
    BY LeadBytes, ExtraRange
<1>2. (IsContinuation(b) <=> b \in 128 .. 191) /\ (b \in 128 .. 191 <=> AsTable(b) \in 128 .. 191)
    BY FollowingBytes
<1>3. AsTable(a) \in 194 .. 223 => a \in 192 .. 223
    BY DEF AsTable, Byte
<1>4. a \in 192 .. 223 /\ b \in 128 .. 191 => (X <=> AsTable(a) \in 194 .. 223)
    BY TwoByteCodes
<1> HIDE DEF X
<1>5. (2 = Extra(a) + 1 /\ IsContinuation(b) /\ X) <=>
         AsTable(a) \in 194 .. 223 /\ AsTable(b) \in 128 .. 191
    BY <1>1, <1>2, <1>3, <1>4
<1> QED
    BY <1>5 DEF X

OfThree(a, b, c) ==
    /\ c \in 128 .. 191
    /\ \/ a = 224 /\ b \in 160 .. 191
       \/ (a \in 225 .. 236 \/ a \in 238 .. 239) /\ b \in 128 .. 191
       \/ a = 237 /\ b \in 128 .. 159

LEMMA ThreeBytes ==
    ASSUME NEW a \in Byte, NEW b \in Byte, NEW c \in Byte
    PROVE  (/\ 3 = Extra(a) + 1 /\ IsContinuation(b) /\ IsContinuation(c)
            /\ CodeAdmitted(2, a, Spelt3(a, b, c))) <=>
              OfThree(AsTable(a), AsTable(b), AsTable(c))
<1>1. 3 = Extra(a) + 1 <=> a \in 224 .. 239
    BY LeadBytes, ExtraRange
<1>2. (IsContinuation(b) <=> b \in 128 .. 191) /\ (IsContinuation(c) <=> c \in 128 .. 191)
    BY FollowingBytes
<1>3. a \in 224 .. 239 /\ b \in 128 .. 191 /\ c \in 128 .. 191 =>
         (CodeAdmitted(2, a, Spelt3(a, b, c)) <=> Admitted3(a, b))
    BY ThreeByteCodes
<1>4. OfThree(AsTable(a), AsTable(b), AsTable(c)) <=>
         a \in 224 .. 239 /\ b \in 128 .. 191 /\ c \in 128 .. 191 /\ Admitted3(a, b)
    BY DEF OfThree, AsTable, Byte, Admitted3
<1> QED
    BY <1>1, <1>2, <1>3, <1>4

OfFour(a, b, c, d) ==
    /\ c \in 128 .. 191 /\ d \in 128 .. 191
    /\ \/ a = 240 /\ b \in 144 .. 191
       \/ a \in 241 .. 243 /\ b \in 128 .. 191
       \/ a = 244 /\ b \in 128 .. 143

LEMMA FourBytes ==
    ASSUME NEW a \in Byte, NEW b \in Byte, NEW c \in Byte, NEW d \in Byte
    PROVE  (/\ 4 = Extra(a) + 1 /\ IsContinuation(b) /\ IsContinuation(c) /\ IsContinuation(d)
            /\ CodeAdmitted(3, a, Spelt4(a, b, c, d))) <=>
              OfFour(AsTable(a), AsTable(b), AsTable(c), AsTable(d))
<1>1. 4 = Extra(a) + 1 <=> a \in 240 .. 247
    BY LeadBytes, ExtraRange
<1>2. /\ IsContinuation(b) <=> b \in 128 .. 191
      /\ IsContinuation(c) <=> c \in 128 .. 191
      /\ IsContinuation(d) <=> d \in 128 .. 191
    BY FollowingBytes
<1>3. a \in 240 .. 247 /\ b \in 128 .. 191 /\ c \in 128 .. 191 /\ d \in 128 .. 191 =>
         (CodeAdmitted(3, a, Spelt4(a, b, c, d)) <=> Admitted4(a, b))
    BY FourByteCodes
<1>4. OfFour(AsTable(a), AsTable(b), AsTable(c), AsTable(d)) <=>
         a \in 240 .. 247 /\ b \in 128 .. 191 /\ c \in 128 .. 191 /\ d \in 128 .. 191 /\ Admitted4(a, b)
    BY DEF OfFour, AsTable, Byte, Admitted4
<1> QED
    BY <1>1, <1>2, <1>3, <1>4

\* Mending a text keeps it a text of the same length.
LEMMA MendedType ==
    ASSUME NEW t \in Seq(Byte)
    PROVE  Mended(t) \in Seq(Byte) /\ Len(Mended(t)) = Len(t)
<1> DEFINE n == Len(t)
<1>1. n \in Nat /\ DOMAIN t = 1 .. n /\ \A i \in 1 .. n : t[i] \in Byte
    OBVIOUS
<1>2. ASSUME NEW b \in Byte PROVE AsTable(b) \in Byte
    BY DEF AsTable, Byte
<1> HIDE DEF n
<1>3. Mended(t) = [i \in 1 .. n |-> AsTable(t[i])]
    BY <1>1 DEF Mended
<1>4. Mended(t) \in [1 .. n -> Byte]
    BY <1>1, <1>2, <1>3
<1> QED
    BY <1>1, <1>4 DEF n

\* The bytes of a piece of a text, as it is and mended.
LEMMA Pieces ==
    ASSUME NEW t \in Seq(Byte), NEW i \in 1 .. Len(t), NEW k \in 1 .. 4, i + k - 1 <= Len(t)
    PROVE  LET u == SubSeq(t, i, i + k - 1)
               w == SubSeq(Mended(t), i, i + k - 1)
           IN /\ Len(u) = k /\ Len(w) = k /\ u[1] = t[i]
              /\ \A j \in 1 .. k : u[j] \in Byte /\ w[j] = AsTable(u[j])
<1>1. Mended(t) \in Seq(Byte) /\ Len(Mended(t)) = Len(t)
    BY MendedType
<1>2. \A j \in 1 .. Len(t) : Mended(t)[j] = AsTable(t[j])
    BY DEF Mended
<1>3. (i + k - 1) - i + 1 = k /\ i + k - 1 \in Int
    OBVIOUS
<1> DEFINE u == SubSeq(t, i, i + k - 1)
           w == SubSeq(Mended(t), i, i + k - 1)
<1>4. u = [j \in 1 .. k |-> t[i + j - 1]]
    BY <1>3, SMT
<1>5. w = [j \in 1 .. k |-> Mended(t)[i + j - 1]]
    BY <1>1, <1>3, SMT
<1>6. Len(u) = k /\ Len(w) = k
    BY <1>1, SMT
<1>7. \A j \in 1 .. k : i + j - 1 \in 1 .. Len(t)
    OBVIOUS
<1>8. ASSUME NEW j \in 1 .. k PROVE u[j] \in Byte /\ w[j] = AsTable(u[j])
    <2>1. u[j] = t[i + j - 1] /\ w[j] = Mended(t)[i + j - 1]
        BY <1>4, <1>5
    <2> QED
        BY <1>2, <1>7, <2>1
<1>9. u[1] = t[i]
    BY <1>4
<1> QED
    BY <1>6, <1>8, <1>9

\* The check takes a character where the table has one.
LEMMA SameCharacters ==
    ASSUME NEW t \in Seq(Byte)
    PROVE  Characters(t) = TableCharacters(Mended(t))
<1>1. Len(Mended(t)) = Len(t)
    BY MendedType
<1>2. ASSUME NEW i \in 1 .. Len(t), NEW k \in 1 .. 4, i + k - 1 <= Len(t)
      PROVE  Accepts(t, i, k) <=> WellFormedUnit(SubSeq(Mended(t), i, i + k - 1))
    <2> DEFINE u == SubSeq(t, i, i + k - 1)
               w == SubSeq(Mended(t), i, i + k - 1)
    <2>1. /\ Len(u) = k /\ Len(w) = k /\ u[1] = t[i]
          /\ \A j \in 1 .. k : u[j] \in Byte /\ w[j] = AsTable(u[j])
        BY <1>2, Pieces
    <2>2. Accepts(t, i, k) <=> /\ k = Extra(u[1]) + 1
                               /\ \A j \in 1 .. k - 1 : IsContinuation(u[j + 1])
                               /\ CodeAdmitted(k - 1, u[1], Code(u))
        BY <2>1 DEF Accepts
    <2> HIDE DEF u, w
    <2> SUFFICES (/\ k = Extra(u[1]) + 1
                  /\ \A j \in 1 .. k - 1 : IsContinuation(u[j + 1])
                  /\ CodeAdmitted(k - 1, u[1], Code(u))) <=> WellFormedUnit(w)
        BY <2>2 DEF w
    <2> DEFINE a == u[1]  b == u[2]  c == u[3]  d == u[4]
    <2>4. CASE k = 1
        <3>1. a \in Byte /\ w[1] = AsTable(a) /\ Code(u) = a
            BY <2>1, <2>4 DEF Code
        <3>2. WellFormedUnit(w) <=> w[1] \in 0 .. 127
            BY <2>1, <2>4 DEF WellFormedUnit
        <3> HIDE DEF a
        <3>3. (1 = Extra(a) + 1 /\ CodeAdmitted(0, a, a)) <=> AsTable(a) \in 0 .. 127
            BY <3>1, OneByte
        <3>4. k - 1 = 0 /\ 1 .. k - 1 = {}
            BY <2>4
        <3> QED
            BY <2>4, <3>1, <3>2, <3>3, <3>4 DEF a
    <2>5. CASE k = 2
        <3>1. a \in Byte /\ w[1] = AsTable(a) /\ b \in Byte /\ w[2] = AsTable(b)
            BY <2>1, <2>5
        <3>2. Code(u) = (a % 32) * 64 + (b % 64)
            BY <2>1, <2>5 DEF Code
        <3>3. WellFormedUnit(w) <=> w[1] \in 194 .. 223 /\ w[2] \in 128 .. 191
            BY <2>1, <2>5 DEF WellFormedUnit
        <3>4. (\A j \in 1 .. 1 : IsContinuation(u[j + 1])) <=> IsContinuation(b)
            OBVIOUS
        <3> HIDE DEF a, b
        <3>5. (/\ 2 = Extra(a) + 1 /\ IsContinuation(b)
               /\ CodeAdmitted(1, a, (a % 32) * 64 + (b % 64))) <=>
                 AsTable(a) \in 194 .. 223 /\ AsTable(b) \in 128 .. 191
            BY <3>1, TwoBytes
        <3>6. k - 1 = 1
            BY <2>5
        <3> QED
            BY <2>5, <3>1, <3>2, <3>3, <3>4, <3>5, <3>6 DEF a
    <2>6. CASE k = 3
        <3>1. /\ a \in Byte /\ w[1] = AsTable(a) /\ b \in Byte /\ w[2] = AsTable(b)
              /\ c \in Byte /\ w[3] = AsTable(c)
            BY <2>1, <2>6
        <3>2. Code(u) = Spelt3(a, b, c)
            BY <2>1, <2>6 DEF Code, Spelt3
        <3>3. WellFormedUnit(w) <=> OfThree(w[1], w[2], w[3])
            BY <2>1, <2>6 DEF WellFormedUnit, OfThree
        <3>4. (\A j \in 1 .. 2 : IsContinuation(u[j + 1])) <=> IsContinuation(b) /\ IsContinuation(c)
            <4>1. 1 .. 2 = {1, 2} /\ 1 + 1 = 2 /\ 2 + 1 = 3
                OBVIOUS
            <4> QED
                BY <4>1
        <3> HIDE DEF a, b, c
        <3>5. (/\ 3 = Extra(a) + 1 /\ IsContinuation(b) /\ IsContinuation(c)
               /\ CodeAdmitted(2, a, Spelt3(a, b, c))) <=>
                 OfThree(AsTable(a), AsTable(b), AsTable(c))
            BY <3>1, ThreeBytes
        <3>6. k - 1 = 2
            BY <2>6
        <3> QED
            BY <2>6, <3>1, <3>2, <3>3, <3>4, <3>5, <3>6 DEF a
    <2>7. CASE k = 4
        <3>1. /\ a \in Byte /\ w[1] = AsTable(a) /\ b \in Byte /\ w[2] = AsTable(b)
              /\ c \in Byte /\ w[3] = AsTable(c) /\ d \in Byte /\ w[4] = AsTable(d)
            BY <2>1, <2>7
        <3>2. Code(u) = Spelt4(a, b, c, d)
            BY <2>1, <2>7 DEF Code, Spelt4
        <3>3. WellFormedUnit(w) <=> OfFour(w[1], w[2], w[3], w[4])
            BY <2>1, <2>7 DEF WellFormedUnit, OfFour
        <3>4. (\A j \in 1 .. 3 : IsContinuation(u[j + 1])) <=>
                 IsContinuation(b) /\ IsContinuation(c) /\ IsContinuation(d)
            <4>1. 1 .. 3 = {1, 2, 3} /\ 1 + 1 = 2 /\ 2 + 1 = 3 /\ 3 + 1 = 4
                OBVIOUS
            <4> QED
                BY <4>1
        <3> HIDE DEF a, b, c, d
        <3>5. (/\ 4 = Extra(a) + 1 /\ IsContinuation(b) /\ IsContinuation(c) /\ IsContinuation(d)
               /\ CodeAdmitted(3, a, Spelt4(a, b, c, d))) <=>
                 OfFour(AsTable(a), AsTable(b), AsTable(c), AsTable(d))
            BY <3>1, FourBytes
        <3>6. k - 1 = 3
            BY <2>7
        <3> QED
            BY <2>7, <3>1, <3>2, <3>3, <3>4, <3>5, <3>6 DEF a
    <2> QED
        BY <2>4, <2>5, <2>6, <2>7
<1>3. ASSUME NEW p \in Units(Len(t))
      PROVE  Accepts(t, p[1], p[2]) <=> WellFormedUnit(SubSeq(Mended(t), p[1], p[1] + p[2] - 1))
    <2>1. p[1] \in 1 .. Len(t) /\ p[2] \in 1 .. 4 /\ p[1] + p[2] - 1 <= Len(t)
        BY DEF Units
    <2> QED
        BY <1>2, <2>1
<1> QED
    BY <1>1, <1>3 DEF Characters, TableCharacters

\* What the reader takes for text is what is well formed once 0xC1 is read as 0xC2.
LEMMA ValidIsWellFormed ==
    ASSUME NEW t \in Seq(Byte)
    PROVE  is_valid_utf8(t) = WellFormed(Mended(t)) /\ is_valid_utf8(t) \in BOOLEAN
<1>1. Mended(t) \in Seq(Byte) /\ Len(Mended(t)) = Len(t)
    BY MendedType
<1>2. is_valid_utf8(t) = WellFormed(Mended(t))
    BY <1>1, ValidIsScan, WellFormedIsScan, SameCharacters
<1>3. IsScan(CHOOSE f : IsScan(f, Len(t), Characters(t)), Len(t), Characters(t))
    <2>1. \E f : IsScan(f, Len(t), Characters(t))
        <3>1. Len(t) \in Nat /\ Characters(t) \in SUBSET Units(Len(t))
            BY DEF Characters
        <3> QED
            BY <3>1, ScanExists
    <2> QED
        BY <2>1, Zenon
<1>4. \A f : IsScan(f, Len(t), Characters(t)) => f[1] \in BOOLEAN
    <2>1. 1 \in 1 .. Len(t) + 1
        OBVIOUS
    <2> QED
        BY <2>1 DEF IsScan
<1> QED
    BY <1>2, <1>3, <1>4, ValidIsScan

\* A character of the table has no byte 0xC1, and so is one with it read as 0xC2.
LEMMA NoC1InTable ==
    ASSUME NEW k \in 1 .. 4, NEW u, NEW w, Len(u) = k, Len(w) = k,
           \A j \in 1 .. k : u[j] \in Byte /\ w[j] = AsTable(u[j]),
           WellFormedUnit(u)
    PROVE  WellFormedUnit(w)
<1>1. ASSUME NEW b \in Byte
      PROVE  b \in 0 .. 127 \/ b \in 194 .. 223 \/ b \in 128 .. 191 \/ b \in 224 .. 244
             => AsTable(b) = b
    BY DEF AsTable, Byte
<1>2. ASSUME NEW a \in Byte, NEW b \in Byte, NEW c \in Byte, OfThree(a, b, c)
      PROVE  AsTable(a) = a /\ AsTable(b) = b /\ AsTable(c) = c
    <2>1. a \in 224 .. 244 /\ b \in 128 .. 191 /\ c \in 128 .. 191
        BY <1>2 DEF OfThree, Byte
    <2> QED
        BY <1>1, <2>1
<1>3. ASSUME NEW a \in Byte, NEW b \in Byte, NEW c \in Byte, NEW d \in Byte, OfFour(a, b, c, d)
      PROVE  AsTable(a) = a /\ AsTable(b) = b /\ AsTable(c) = c /\ AsTable(d) = d
    <2>1. a \in 224 .. 244 /\ b \in 128 .. 191 /\ c \in 128 .. 191 /\ d \in 128 .. 191
        BY <1>3 DEF OfFour, Byte
    <2> QED
        BY <1>1, <2>1
<1>4. CASE k = 1
    <2>1. u[1] \in Byte /\ u[1] \in 0 .. 127 /\ w[1] = AsTable(u[1])
        BY <1>4 DEF WellFormedUnit
    <2>2. w[1] = u[1]
        BY <1>1, <2>1
    <2> QED
        BY <1>4, <2>1, <2>2 DEF WellFormedUnit
<1>5. CASE k = 2
    <2>1. u[1] \in 194 .. 223 /\ u[2] \in 128 .. 191
        BY <1>5 DEF WellFormedUnit
    <2>2. \A j \in {1, 2} : u[j] \in Byte /\ w[j] = AsTable(u[j])
        BY <1>5
    <2>3. w[1] = u[1] /\ w[2] = u[2]
        BY <1>1, <2>1, <2>2
    <2> QED
        BY <1>5, <2>1, <2>3 DEF WellFormedUnit
<1>6. CASE k = 3
    <2>1. OfThree(u[1], u[2], u[3])
        BY <1>6 DEF WellFormedUnit, OfThree
    <2>2. \A j \in {1, 2, 3} : u[j] \in Byte /\ w[j] = AsTable(u[j])
        BY <1>6
    <2>3. w[1] = u[1] /\ w[2] = u[2] /\ w[3] = u[3]
        BY <1>2, <2>1, <2>2
    <2> QED
        BY <1>6, <2>1, <2>3 DEF WellFormedUnit, OfThree
<1>7. CASE k = 4
    <2>1. OfFour(u[1], u[2], u[3], u[4])
        BY <1>7 DEF WellFormedUnit, OfFour
    <2>2. \A j \in {1, 2, 3, 4} : u[j] \in Byte /\ w[j] = AsTable(u[j])
        BY <1>7
    <2>3. w[1] = u[1] /\ w[2] = u[2] /\ w[3] = u[3] /\ w[4] = u[4]
        BY <1>3, <2>1, <2>2
    <2> QED
        BY <1>7, <2>1, <2>3 DEF WellFormedUnit, OfFour
<1> QED
    BY <1>4, <1>5, <1>6, <1>7

\* Well-formed text is taken: reading 0xC1 as 0xC2 leaves the characters of the table.
LEMMA WellFormedIsValid ==
    ASSUME NEW t \in Seq(Byte), WellFormed(t)
    PROVE  is_valid_utf8(t)
<1> DEFINE m == Mended(t)
           n == Len(t)
           U == TableCharacters(t)
           V == TableCharacters(m)
<1>1. m \in Seq(Byte) /\ Len(m) = n /\ n \in Nat
    BY MendedType
<1>2. U \in SUBSET Units(n) /\ V \in SUBSET Units(n)
    BY <1>1 DEF TableCharacters
<1>3. ASSUME NEW p \in U PROVE p \in V
    <2>1. p \in Units(n) /\ WellFormedUnit(SubSeq(t, p[1], p[1] + p[2] - 1))
        BY <1>3 DEF TableCharacters
    <2>2. p[1] \in 1 .. n /\ p[2] \in 1 .. 4 /\ p[1] + p[2] - 1 <= n
        BY <2>1 DEF Units
    <2> DEFINE k == p[2]
               u == SubSeq(t, p[1], p[1] + k - 1)
               w == SubSeq(m, p[1], p[1] + k - 1)
    <2>3. /\ Len(u) = k /\ Len(w) = k
          /\ \A j \in 1 .. k : u[j] \in Byte /\ w[j] = AsTable(u[j])
        BY <2>2, Pieces
    <2> HIDE DEF u, w, m
    <2>4. WellFormedUnit(u)
        BY <2>1 DEF u
    <2>5. WellFormedUnit(w)
        BY <2>2, <2>3, <2>4, NoC1InTable
    <2> QED
        BY <1>1, <2>1, <2>5 DEF TableCharacters, w
<1> HIDE DEF m, n, U, V
<1>4. IsScan(CHOOSE f : IsScan(f, n, U), n, U)
    <2>1. \E f : IsScan(f, n, U)
        BY <1>1, <1>2, ScanExists
    <2> QED
        BY <2>1, Zenon
<1>5. IsScan(CHOOSE f : IsScan(f, n, V), n, V)
    <2>1. \E f : IsScan(f, n, V)
        BY <1>1, <1>2, ScanExists
    <2> QED
        BY <2>1, Zenon
<1>6. WellFormed(t) = (CHOOSE f : IsScan(f, n, U))[1]
    BY WellFormedIsScan DEF n, U
<1>7. WellFormed(m) = (CHOOSE f : IsScan(f, n, V))[1]
    <2>1. WellFormed(m) = (CHOOSE f : IsScan(f, Len(m), V))[1]
        BY <1>1, WellFormedIsScan DEF V
    <2> QED
        BY <1>1, <2>1
<1>8. U \in SUBSET V
    BY <1>3
<1>9. WellFormed(m)
    BY <1>1, <1>2, <1>4, <1>5, <1>6, <1>7, <1>8, ScanGrows
<1> QED
    BY <1>9, ValidIsWellFormed DEF m

------------------------------------------------------------------------------
(* Texts: a field *)

\* A length that was written is read back.
LEMMA LengthReadBack ==
    ASSUME NEW n \in Nat, n < TooLarge
    PROVE  /\ WriteU32(n) \in Seq(Byte) /\ Len(WriteU32(n)) = 4
           /\ AsNumber(WriteU32(n)) = n
<1> DEFINE a == n % 256
           b == (n \div 256) % 256
           c == (n \div 65536) % 256
           d == (n \div 16777216) % 256
<1>1. a \in Byte /\ b \in Byte /\ c \in Byte /\ d \in Byte
    BY SMT DEF Byte
<1>2. d < 128
    BY SMT DEF TooLarge
<1>3. a + 256 * b + 65536 * c + 16777216 * d = n
    <2>1. n = 256 * (n \div 256) + a
        BY SMT DEF TooLarge
    <2>2. n \div 256 = 256 * (n \div 65536) + b
        BY SMT DEF TooLarge
    <2>3. n \div 65536 = 256 * (n \div 16777216) + c
        BY SMT DEF TooLarge
    <2>4. n \div 16777216 = d
        BY SMT DEF TooLarge
    <2> DEFINE x == n \div 256  y == n \div 65536  z == n \div 16777216
    <2>5. x \in Nat /\ y \in Nat /\ z \in Nat
        BY SMT DEF TooLarge
    <2> HIDE DEF a, b, c, d, x, y, z
    <2> QED
        BY <1>1, <2>1, <2>2, <2>3, <2>4, <2>5, SMT DEF x, y, z, Byte
<1>4. WriteU32(n) = <<a, b, c, d>>
    BY SMT DEF WriteU32
<1> HIDE DEF a, b, c, d
<1>5. <<a, b, c, d>> \in Seq(Byte) /\ Len(<<a, b, c, d>>) = 4
    BY <1>1
<1>6. AsNumber(<<a, b, c, d>>) = a + 256 * b + 65536 * c + 16777216 * d
    BY <1>1, <1>2, SMT DEF AsNumber, Byte
<1> QED
    BY <1>3, <1>4, <1>5, <1>6, SMT

\* What a prefixed text is made of, and what its beginning has of it.
LEMMA PrefixedParts ==
    ASSUME NEW t \in Seq(Byte), Len(t) < TooLarge, NEW m \in 0 .. Len(t) + 4
    PROVE  LET f == SubSeq(Prefixed(t), 1, m) IN
           /\ Prefixed(t) \in Seq(Byte) /\ Len(Prefixed(t)) = Len(t) + 4
           /\ Len(f) = m
           /\ m >= 4 => SubSeq(f, 1, 4) = WriteU32(Len(t))
           /\ m = Len(t) + 4 => f = Prefixed(t) /\ SubSeq(f, 5, Len(t) + 4) = t
<1> DEFINE n == Len(t)
           h == WriteU32(n)
           p == Prefixed(t)
           f == SubSeq(p, 1, m)
<1>1. n \in Nat /\ n < TooLarge
    OBVIOUS
<1>2. h \in Seq(Byte) /\ Len(h) = 4
    BY <1>1, LengthReadBack
<1>3. p = h \o t
    BY DEF Prefixed
<1> HIDE DEF h, p
<1>4. /\ p \in Seq(Byte) /\ Len(p) = n + 4
      /\ \A j \in 1 .. 4 : p[j] = h[j]
      /\ \A j \in 1 .. n : p[j + 4] = t[j]
    <2>0. /\ h \o t \in Seq(Byte) /\ Len(h \o t) = Len(h) + Len(t)
          /\ \A j \in 1 .. Len(h) + Len(t) : (h \o t)[j] = IF j <= Len(h) THEN h[j] ELSE t[j - Len(h)]
        BY <1>2, ConcatProperties, Zenon
    <2>1. p \in Seq(Byte) /\ Len(p) = n + 4
        BY <1>1, <1>2, <1>3, <2>0
    <2>2. \A j \in 1 .. n + 4 : p[j] = IF j <= 4 THEN h[j] ELSE t[j - 4]
        BY <1>1, <1>2, <1>3, <2>0
    <2>3. \A j \in 1 .. 4 : p[j] = h[j]
        BY <1>1, <2>2
    <2>4. ASSUME NEW j \in 1 .. n PROVE p[j + 4] = t[j]
        <3>1. j + 4 \in 1 .. n + 4 /\ ~(j + 4 <= 4) /\ (j + 4) - 4 = j
            BY <1>1
        <3> QED
            BY <2>2, <3>1
    <2> QED
        BY <2>1, <2>3, <2>4
<1>5. f \in Seq(Byte) /\ Len(f) = m /\ \A j \in 1 .. m : f[j] = p[j]
    BY <1>4
<1>6. ASSUME m >= 4 PROVE SubSeq(f, 1, 4) = h
    <2> HIDE DEF f
    <2> DEFINE g == SubSeq(f, 1, 4)
    <2>1. g \in Seq(Byte) /\ Len(g) = 4 /\ \A j \in 1 .. 4 : g[j] = f[j]
        BY <1>5, <1>6
    <2> HIDE DEF g
    <2>2. \A j \in 1 .. 4 : g[j] = h[j]
        BY <1>4, <1>5, <1>6, <2>1
    <2>3. g = h
        BY <1>2, <2>1, <2>2, SeqEqual
    <2> QED
        BY <2>3 DEF g
<1>7. ASSUME m = n + 4 PROVE f = p /\ SubSeq(f, 5, n + 4) = t
    <2> HIDE DEF f
    <2>1. f = p
        BY <1>4, <1>5, <1>7, SeqEqual
    <2> DEFINE g == SubSeq(p, 5, n + 4)
    <2>2. g \in Seq(Byte) /\ Len(g) = n /\ \A j \in 1 .. n : g[j] = p[j + 4]
        BY <1>1, <1>4
    <2> HIDE DEF g
    <2>3. g = t
        BY <1>1, <1>4, <2>2, SeqEqual
    <2> QED
        BY <2>1, <2>3 DEF g
<1> QED
    BY <1>4, <1>5, <1>6, <1>7 DEF h, p

\* What str makes of the beginning of a prefixed text: the text when it is all there,
\* not too long and valid, and nothing else.
LEMMA StrReads ==
    ASSUME NEW t \in Seq(Byte), Len(t) < TooLarge, NEW m \in 0 .. Len(t) + 4
    PROVE  LET f == SubSeq(Prefixed(t), 1, m) IN
           str(f, 0) = IF m = Len(t) + 4 /\ Len(t) <= max_string /\ is_valid_utf8(t)
                       THEN Got(t, m) ELSE Refused
<1> DEFINE n == Len(t)
           f == SubSeq(Prefixed(t), 1, m)
           length == ReadU32(f, 0)
           span == take(f, length.offset, length.value)
<1>1. n \in Nat /\ n < TooLarge
    OBVIOUS
<1>2. /\ Len(f) = m
      /\ m >= 4 => SubSeq(f, 1, 4) = WriteU32(n)
      /\ m = n + 4 => SubSeq(f, 5, n + 4) = t
    BY <1>1, PrefixedParts
<1>3. AsNumber(WriteU32(n)) = n
    BY <1>1, LengthReadBack
<1>4. str(f, 0) = IF length.ok /\ length.value <= max_string /\ span.ok /\ is_valid_utf8(span.value)
                  THEN span ELSE Refused
    BY DEF str
<1> HIDE DEF f, n
<1>5. CASE m < 4
    <2>1. take(f, 0, 4) = Refused
        BY <1>2, <1>5 DEF take, remaining
    <2>2. length = Refused /\ m # n + 4
        BY <1>1, <1>5, <2>1 DEF ReadU32, Refused
    <2> QED
        BY <1>4, <2>2 DEF Refused, n, f
<1>6. CASE m >= 4
    <2>1. take(f, 0, 4) = Got(WriteU32(n), 4)
        <3>1. ~(4 > remaining(f, 0)) /\ 0 + 1 = 1 /\ 0 + 4 = 4
            BY <1>2, <1>6 DEF remaining
        <3> QED
            BY <1>2, <1>6, <3>1 DEF take
    <2>2. length = Got(n, 4)
        <3> DEFINE r == Got(WriteU32(n), 4)
        <3>1. r.ok /\ AsNumber(r.value) = n /\ r.offset = 4
            BY <1>3 DEF Got
        <3> QED
            BY <2>1, <3>1 DEF ReadU32
    <2>3. length.ok /\ length.value = n /\ length.offset = 4
        BY <2>2 DEF Got
    <2>4. remaining(f, 4) = m - 4
        BY <1>2 DEF remaining
    <2>5. CASE m = n + 4
        <3>1. ~(n > remaining(f, 4)) /\ 4 + 1 = 5 /\ 4 + n = n + 4
            BY <1>1, <2>4, <2>5
        <3>2. span = Got(t, m)
            BY <1>2, <2>3, <2>5, <3>1 DEF take
        <3>3. span.ok /\ span.value = t
            BY <3>2 DEF Got
        <3> HIDE DEF span, length
        <3> QED
            BY <1>4, <2>3, <2>5, <3>2, <3>3 DEF n, f
    <2>6. CASE m # n + 4
        <3>1. n > remaining(f, 4)
            BY <1>1, <2>4, <2>6 DEF n
        <3>2. span = Refused
            BY <2>3, <3>1 DEF take
        <3>3. ~span.ok
            BY <3>2 DEF Refused
        <3> HIDE DEF span, length
        <3> QED
            BY <1>4, <2>6, <3>3 DEF n, f
    <2> QED
        BY <2>5, <2>6
<1> QED
    BY <1>5, <1>6

\* The field is the beginning of the text with its length, all of it unless it was cut.
Shown(m) ==
    /\ field = SubSeq(Prefixed(text), 1, m)
    /\ whole = (m = Len(text) + 4)
TextInv ==
    /\ text \in Seq(Byte) /\ Len(text) < TooLarge
    /\ \E m \in 0 .. Len(text) + 4 : Shown(m)

LEMMA TextInvInit == TextInit => TextInv
<1> SUFFICES ASSUME TextInit PROVE TextInv
    OBVIOUS
<1>1. text \in Seq(Byte) /\ Len(text) < TooLarge /\ Len(text) \in Nat
    BY StringsAssumption DEF TextInit
<1>2. Len(text) + 4 \in 0 .. Len(text) + 4
    BY <1>1
<1>3. SubSeq(Prefixed(text), 1, Len(text) + 4) = Prefixed(text)
    BY <1>1, <1>2, PrefixedParts
<1>4. Shown(Len(text) + 4)
    BY <1>3 DEF Shown, TextInit
<1> QED
    BY <1>1, <1>2, <1>4 DEF TextInv

LEMMA TextInvNext == TextInv /\ [TextNext]_tvars => TextInv'
<1> SUFFICES ASSUME TextInv, [TextNext]_tvars PROVE TextInv'
    OBVIOUS
<1>1. PICK m \in 0 .. Len(text) + 4 : Shown(m)
    BY DEF TextInv
<1>2. CASE CutField
    <2>1. m = Len(text) + 4 /\ field = SubSeq(Prefixed(text), 1, m)
        BY <1>1, <1>2 DEF Shown, CutField
    <2>2. Len(text) \in Nat /\ Len(text) < TooLarge
        BY DEF TextInv
    <2>3. field = Prefixed(text) /\ Len(field) = Len(text) + 4
        <3>1. text \in Seq(Byte)
            BY DEF TextInv
        <3> QED
            BY <2>1, <2>2, <3>1, PrefixedParts
    <2>4. PICK k \in 0 .. Len(field) - 1 : field' = SubSeq(field, 1, k)
        BY <1>2 DEF CutField
    <2>5. k \in 0 .. Len(text) + 4 /\ k # Len(text) + 4
        BY <2>2, <2>3, <2>4
    <2>6. text' = text /\ whole' = FALSE /\ field' = SubSeq(Prefixed(text), 1, k)
        BY <1>2, <2>3, <2>4 DEF CutField
    <2>7. Shown(k)'
        BY <2>5, <2>6 DEF Shown
    <2> QED
        BY <2>5, <2>6, <2>7 DEF TextInv
<1>3. CASE UNCHANGED <<text, field, whole>>
    <2>1. Shown(m)'
        BY <1>1, <1>3 DEF Shown
    <2> QED
        BY <1>1, <1>3, <2>1 DEF TextInv
<1> QED
    BY <1>2, <1>3 DEF TextNext, ReadField, tvars

LEMMA TextRead == TextInv /\ AcceptsText /\ [TextNext]_tvars => AcceptsText'
<1> SUFFICES ASSUME TextInv, AcceptsText, [TextNext]_tvars PROVE AcceptsText'
    OBVIOUS
<1>1. CASE ReadField
    <2>1. PICK m \in 0 .. Len(text) + 4 : Shown(m)
        BY DEF TextInv
    <2>2. text \in Seq(Byte) /\ Len(text) \in Nat /\ Len(text) < TooLarge
        BY DEF TextInv
    <2> DEFINE short == Len(text) <= max_string
               valid == is_valid_utf8(text)
               r == str(field, 0)
    <2>3. r = IF m = Len(text) + 4 /\ short /\ valid THEN Got(text, m) ELSE Refused
        BY <2>1, <2>2, StrReads DEF Shown
    <2>4. Len(field) = m
        BY <2>1, <2>2, PrefixedParts DEF Shown
    <2>5. taken' = IF r.ok /\ require_end(field, r.offset) THEN r ELSE Refused
        BY <1>1 DEF ReadField
    <2> HIDE DEF r, valid, short
    <2>6. r.ok => require_end(field, r.offset)
        BY <2>3, <2>4 DEF Got, Refused, require_end
    <2>7. taken' = IF m = Len(text) + 4 /\ short /\ valid THEN Got(text, m) ELSE Refused
        BY <2>3, <2>5, <2>6 DEF Got, Refused
    <2>8. Admissible(text) <=> short /\ valid
        <3>1. Mended(text) = [i \in DOMAIN text |-> IF text[i] = 193 THEN 194 ELSE text[i]]
            BY DEF Mended, AsTable
        <3>2. valid = WellFormed(Mended(text))
            BY <2>2, ValidIsWellFormed DEF valid
        <3> QED
            BY <3>1, <3>2 DEF Admissible, short
    <2>9. whole = (m = Len(text) + 4) /\ whole' = whole /\ text' = text
        BY <1>1, <2>1 DEF Shown, ReadField
    <2>10. WellFormed(text) => valid
        BY <2>2, WellFormedIsValid DEF valid
    <2>11. /\ whole /\ Len(text) <= max_string /\ WellFormed(text) => taken'.ok
           /\ taken'.ok => whole /\ Admissible(text) /\ taken'.value = text
        <3>1. CASE m = Len(text) + 4 /\ short /\ valid
            <4>1. taken'.ok = TRUE /\ taken'.value = text
                BY <2>7, <3>1 DEF Got
            <4> QED
                BY <2>8, <2>9, <3>1, <4>1
        <3>2. CASE ~(m = Len(text) + 4 /\ short /\ valid)
            <4>1. taken'.ok = FALSE
                BY <2>7, <3>2 DEF Refused
            <4> QED
                BY <2>9, <2>10, <3>2, <4>1 DEF short
        <3> QED
            BY <3>1, <3>2
    <2> QED
        BY <2>9, <2>11 DEF AcceptsText
<1>2. CASE CutField \/ UNCHANGED tvars
    <2>1. UNCHANGED <<text, taken>> /\ (taken = NotRead \/ UNCHANGED whole)
        BY <1>2 DEF CutField, tvars
    <2> QED
        BY <2>1 DEF AcceptsText
<1> QED
    BY <1>1, <1>2 DEF TextNext

\* Reader::str accepts a string that is all there, within the limit and well formed, with
\* the value that was sent, and accepts nothing else but text that would be well formed
\* with 0xC2 for 0xC1: strings of any bytes and any length.
THEOREM TextAccepted == TextSpec => []AcceptsText
<1>1. TextInit => AcceptsText
    BY DEF TextInit, AcceptsText
<1> QED
    BY <1>1, TextInvInit, TextInvNext, TextRead, PTL DEF TextSpec

=============================================================================
