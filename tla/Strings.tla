------------------------------ MODULE Strings ------------------------------
(***************************************************************************)
(* string.c on a memory of a few bytes.  A caller calls one function on    *)
(* any memory with any arguments that C allows, or strtok repeatedly.      *)
(* What a loop leaves in its index is Exit: the first index at which the   *)
(* loop's condition is false.                                              *)
(***************************************************************************)
EXTENDS Integers, Sequences, FiniteSetsExt, SequencesExt

CONSTANTS
    Top,        \* the last address of the memory
    Bytes       \* the values of a byte, 256

ASSUME StringsAssumption == Top \in Nat /\ Bytes \in Nat \ {0, 1}

Cells == 0 .. Top
Byte == 0 .. Bytes - 1
NULL == -1

VARIABLES
    mem,
    next,       \* strtok's static
    call,       \* the last call: its function and arguments
    ret,        \* and what it returned
    before,     \* history: mem before the call (strtok: before the first one)
    tokens      \* history: the tokens of the strtok calls so far

stringVars == <<mem, next, call, ret, before, tokens>>

NoCall == [f |-> "none", d |-> 0, s |-> 0, n |-> 0]

StringsInit ==
    /\ mem \in [Cells -> Byte]
    /\ next = NULL
    /\ call = NoCall
    /\ ret = 0
    /\ before = mem
    /\ tokens = <<>>

-----------------------------------------------------------------------------
Exit(Cond(_)) == CHOOSE i \in 0 .. Top + 1 :
                    ~Cond(i) /\ \A j \in 0 .. i - 1 : Cond(j)

Upwards(n) == [i \in 1 .. n |-> i - 1]
Downwards(n) == [i \in 1 .. n |-> n - i]

(* Byte by byte, in the order of the indices.                              *)
CopyBytes(m, d, s, order) ==
    LET now[k \in 0 .. Len(order)] ==
            IF k = 0 THEN m
            ELSE [now[k - 1] EXCEPT ![d + order[k]] = now[k - 1][s + order[k]]]
    IN  now[Len(order)]

memcpy(m, d, s, n) == CopyBytes(m, d, s, Upwards(n))

memset(m, s, c, n) == [a \in Cells |-> IF a \in s .. s + n - 1 THEN c % Bytes
                                                               ELSE m[a]]

(* Mutant of memmove: always upwards.                                      *)
memmoveUp(m, d, s, n) == CopyBytes(m, d, s, Upwards(n))

memmove(m, d, s, n) ==
    CASE s > d -> CopyBytes(m, d, s, Upwards(n))
      [] s < d -> CopyBytes(m, d, s, Downwards(n))
      [] s = d -> m

memcmp(m, p, q, n) ==
    LET i == Exit(LAMBDA j : j < n /\ m[p + j] = m[q + j])
    IN  IF i = n THEN 0 ELSE IF m[p + i] < m[q + i] THEN -1 ELSE 1

strlen(m, s) == Exit(LAMBDA i : m[s + i] # 0)

strcpy(m, d, s) == CopyBytes(m, d, s, Upwards(strlen(m, s) + 1))

strncpy(m, d, s, n) ==
    LET i == Exit(LAMBDA j : j < n /\ m[s + j] # 0)
    IN  memset(memcpy(m, d, s, i), d + i, 0, n - i)

strcmp(m, p, q) ==
    LET i == Exit(LAMBDA j : m[p + j] # 0 /\ m[p + j] = m[q + j])
    IN  m[p + i] - m[q + i]

strncmp(m, p, q, n) ==
    LET i == Exit(LAMBDA j : j < n /\ m[p + j] # 0 /\ m[p + j] = m[q + j])
    IN  IF i = n THEN 0 ELSE m[p + i] - m[q + i]

strcat(m, d, s) == strcpy(m, d + strlen(m, d), s)

strncat(m, d, s, n) ==
    LET i   == Exit(LAMBDA j : j < n /\ m[s + j] # 0)
        end == d + strlen(m, d)
    IN  [memcpy(m, end, s, i) EXCEPT ![end + i] = 0]

(* The byte is looked for in front of the terminator only.                 *)
strchr(m, s, c) ==
    LET i == Exit(LAMBDA j : m[s + j] # 0 /\ m[s + j] # c)
    IN  IF m[s + i] = 0 THEN NULL ELSE s + i

strrchr(m, s, c) ==
    LET found == {a \in s .. s + strlen(m, s) - 1 : m[a] = c}
    IN  IF found = {} THEN NULL ELSE Max(found)

(* The index at which the inner loop of strstr stops at h.                 *)
Agrees(m, h, needle) ==
    LET i == Exit(LAMBDA j : m[h + j] # 0 /\ m[needle + j] # 0
                                          /\ m[h + j] = m[needle + j])
    IN  m[needle + i] = 0

strstr(m, haystack, needle) ==
    LET i == Exit(LAMBDA j : m[haystack + j] # 0 /\ ~Agrees(m, haystack + j, needle))
    IN  IF m[needle] = 0 THEN haystack
        ELSE IF m[haystack + i] = 0 THEN NULL ELSE haystack + i

-----------------------------------------------------------------------------
(* What the caller owes: strings with an end, room, and no overlap where   *)
(* the parameters are restrict or the copy would reach its own source.     *)
IsString(a) == \E b \in Cells : b >= a /\ mem[b] = 0
Room(a, n) == a + n - 1 <= Top
Apart(a, b, n) == a + n <= b \/ b + n <= a

Of(f, d, s, n) == call' = [f |-> f, d |-> d, s |-> s, n |-> n]

Moves(d, s, n) ==
    /\ Room(d, n) /\ Room(s, n)
    /\ \/ Of("memmove", d, s, n) /\ mem' = memmove(mem, d, s, n)
       \/ Of("memcpy", d, s, n) /\ Apart(d, s, n) /\ mem' = memcpy(mem, d, s, n)
       \/ Of("memset", d, s, n) /\ mem' = memset(mem, d, s, n)
    /\ ret' = d

Copies(d, s, n) ==
    /\ IsString(s)
    /\ LET l == strlen(mem, s)
       IN  \/ /\ Of("strcpy", d, s, n)
              /\ Room(d, l + 1) /\ Apart(d, s, l + 1)
              /\ mem' = strcpy(mem, d, s)
           \/ /\ Of("strncpy", d, s, n)
              /\ Room(d, n) /\ (d + n <= s \/ s + l < d)
              /\ mem' = strncpy(mem, d, s, n)
           \/ /\ Of("strcat", d, s, n)
              /\ IsString(d) /\ s + l < d /\ Room(d, strlen(mem, d) + l + 1)
              /\ mem' = strcat(mem, d, s)
           \/ /\ Of("strncat", d, s, n)
              /\ IsString(d) /\ s + l < d /\ Room(d, strlen(mem, d) + Min({n, l}) + 1)
              /\ mem' = strncat(mem, d, s, n)
    /\ ret' = d

(* n is the byte looked for, where one is.                                 *)
Reads(d, s, n) ==
    /\ IsString(d) /\ IsString(s)
    /\ \/ /\ Of("memcmp", d, s, n)
          /\ Room(d, n) /\ Room(s, n)
          /\ ret' = memcmp(mem, d, s, n)
       \/ Of("strcmp", d, s, n) /\ ret' = strcmp(mem, d, s)
       \/ Of("strncmp", d, s, n) /\ ret' = strncmp(mem, d, s, n)
       \/ Of("strchr", d, s, n) /\ ret' = strchr(mem, d, n)
       \/ Of("strrchr", d, s, n) /\ ret' = strrchr(mem, d, n)
       \/ Of("strstr", d, s, n) /\ ret' = strstr(mem, d, s)
    /\ UNCHANGED mem

CallOne ==
    /\ call.f = "none"
    /\ \E d, s \in Cells, n \in 0 .. Bytes :
          Moves(d, s, n) \/ Copies(d, s, n) \/ Reads(d, s, n)
    /\ UNCHANGED <<next, before, tokens>>

(* strtok(str, delim), with delim a set of bytes: str is given in the first*)
(* call and NULL in the others.  NULL itself ends the series.              *)
strtok(str, delim) ==
    LET from  == IF str # NULL THEN str ELSE next
        start == from + Exit(LAMBDA i : mem[from + i] # 0 /\ mem[from + i] \in delim)
        end   == start + Exit(LAMBDA i : mem[start + i] # 0 /\ mem[start + i] \notin delim)
    IN  IF from = NULL \/ mem[start] = 0
        THEN ret' = NULL /\ next' = NULL /\ UNCHANGED mem
        ELSE /\ ret' = start
             /\ IF mem[end] = 0
                THEN next' = NULL /\ UNCHANGED mem
                ELSE next' = end + 1 /\ mem' = [mem EXCEPT ![end] = 0]

Tokenize(d, delim) ==
    /\ \/ /\ call.f = "none" /\ IsString(d)
          /\ call' = [f |-> "strtok", d |-> d, s |-> delim, n |-> 0]
          /\ strtok(d, {delim})
       \/ /\ call = [f |-> "strtok", d |-> d, s |-> delim, n |-> 0]
          /\ ret # NULL
          /\ strtok(NULL, {delim})
          /\ UNCHANGED call
    /\ tokens' = IF ret' = NULL THEN tokens ELSE Append(tokens, ret')
    /\ UNCHANGED before

StringsNext ==
    \/ CallOne
    \/ \E d \in Cells, delim \in Byte \ {0} : Tokenize(d, delim)

StringsSpec == StringsInit /\ [][StringsNext]_stringVars

-----------------------------------------------------------------------------
(* The reference: memory as sequences of bytes.                            *)
Slice(m, a, n) == [i \in 1 .. n |-> m[a + i - 1]]
Text(m, a) == Slice(m, a, Min({b \in a .. Top : m[b] = 0}) - a)
FirstOf(t, n) == SubSeq(t, 1, Min({n, Len(t)}))

Less(t, u) ==
    \E k \in 0 .. Min({Len(t), Len(u)}) :
        /\ SubSeq(t, 1, k) = SubSeq(u, 1, k)
        /\ k < Len(u)
        /\ k = Len(t) \/ t[k + 1] < u[k + 1]

(* r has the sign of the comparison of t with u.                           *)
Compares(r, t, u) == (r < 0 <=> Less(t, u)) /\ (r = 0 <=> t = u)

(* The bytes from d on became w, and no other byte changed.                *)
Became(d, w) ==
    mem = [a \in Cells |-> IF a \in d .. d + Len(w) - 1 THEN w[a - d + 1]
                                                       ELSE before[a]]
Zeros(n) == [i \in 1 .. n |-> 0]

(* The ends of the maximal runs of bytes that are not in delim.            *)
Runs(t, delim) ==
    {r \in (1 .. Len(t)) \X (1 .. Len(t)) :
        /\ r[1] <= r[2]
        /\ \A i \in r[1] .. r[2] : t[i] # delim
        /\ r[1] = 1 \/ t[r[1] - 1] = delim
        /\ r[2] = Len(t) \/ t[r[2] + 1] = delim}

(* The functions of string.c do what the C standard says, overlapping      *)
(* memmove and the series of strtok included, but for one case: strchr and *)
(* strrchr do not find the terminator, n = 0.                              *)
StringsDoTheirWork ==
    LET d == call.d
        s == call.s
        n == call.n
        t == Text(before, d)
        u == Text(before, s)
    IN  CASE call.f \in {"memmove", "memcpy"} -> Became(d, Slice(before, s, n))
          [] call.f = "memset"  -> Became(d, [i \in 1 .. n |-> s % Bytes])
          [] call.f = "strcpy"  -> Became(d, u \o Zeros(1))
          [] call.f = "strncpy" -> Became(d, FirstOf(u \o Zeros(n), n))
          [] call.f = "strcat"  -> Became(d, t \o u \o Zeros(1))
          [] call.f = "strncat" -> Became(d, t \o FirstOf(u, n) \o Zeros(1))
          [] call.f = "memcmp"  -> Compares(ret, Slice(mem, d, n), Slice(mem, s, n))
          [] call.f = "strcmp"  -> Compares(ret, t, u)
          [] call.f = "strncmp" -> Compares(ret, FirstOf(t, n), FirstOf(u, n))
          [] call.f = "strchr"  ->
                ret = IF n \in ToSet(t) THEN d - 1 + Min({i \in 1 .. Len(t) : t[i] = n})
                                        ELSE NULL
          [] call.f = "strrchr" ->
                ret = IF n \in ToSet(t) THEN d - 1 + Max({i \in 1 .. Len(t) : t[i] = n})
                                        ELSE NULL
          [] call.f = "strstr"  ->
                LET at == {i \in 0 .. Len(t) : IsPrefix(u, SubSeq(t, i + 1, Len(t)))}
                IN  ret = IF at = {} THEN NULL ELSE d + Min(at)
          [] call.f = "strtok"  ->
                LET runs == Runs(t, s)
                IN  /\ ret = NULL => Len(tokens) = Cardinality(runs)
                    /\ \A i \in 1 .. Len(tokens) : \E r \in runs :
                          /\ Cardinality({q \in runs : q[1] < r[1]}) = i - 1
                          /\ tokens[i] = d + r[1] - 1
                          /\ Text(mem, tokens[i]) = SubSeq(t, r[1], r[2])
          [] OTHER -> mem = before
=============================================================================
