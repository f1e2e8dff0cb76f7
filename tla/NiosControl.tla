----------------------------- MODULE NiosControl -----------------------------
(***************************************************************************)
(* The control channel: the host, the two FIFOs between the PCIe core and  *)
(* the NIOS processor, and the endless loop of main.c, which looks for     *)
(* starts of a PLL configuration or reset, samples the start bits, and     *)
(* serves one request of the host.                                         *)
(*                                                                         *)
(* The start bits and the settings are SPI registers that only a request   *)
(* writes, and the loop samples the bits before it serves a request: a     *)
(* start is acted upon in the round after the one that sampled it, and one *)
(* more request is served in between.  The tamer's part of the loop, which *)
(* lms7_trx_top leaves without a signal, is in VctcxoTamer.                *)
(***************************************************************************)
EXTENDS Integers, Sequences

CONSTANTS
  Plls,      \* PLLs with a reconfiguration block
  Indices,   \* indices that the host may write
  Settings,  \* settings that the host may write
  None       \* no request, no configuration

Numbers == 0..1
Configurations == [ind : Indices, set : Settings]

ASSUME ControlAssumption ==
  /\ 0 \in Plls /\ Plls \subseteq Indices /\ Indices \subseteq Nat
  /\ None \notin Numbers /\ None \notin Configurations

VARIABLES
  opened,      \* the host has both control streams open
  waiting,     \* the request whose answer the host waits for
  nr,          \* number of the next request
  polled,      \* the host has asked for the status since it set pllcfg_start
  h2f, f2h,    \* inst11_H2F_C0_FIFO and inst15_F2H_C0_FIFO
  pc,          \* where the loop is
  rx,          \* the request in glEp0Buffer_Rx
  reg,         \* index, settings and start bits among the PLL registers
  start, old,  \* the samples of the start bits: *_start, *_start_old
  status,      \* PLLCFG_STATUS
  pll,         \* the settings loaded into each PLL and those it has locked to
  asked        \* the configuration that the host started, until it is made

host == <<opened, waiting, nr, polled>>
fifos == <<h2f, f2h>>
samples == <<start, old>>
plls == <<status, pll, asked>>
vars == <<host, fifos, pc, rx, reg, samples, plls>>

Starts == {"pllcfg", "pllrst"}
NoStart == [b \in Starts |-> FALSE]
NoErr == 0
CxTimeout == 10
Errors == {NoErr, CxTimeout}

TypeOK ==
  /\ opened \in BOOLEAN /\ polled \in BOOLEAN
  /\ waiting \in Numbers \cup {None} /\ nr \in Numbers
  /\ h2f \in Seq(Numbers) /\ f2h \in Seq(Numbers)
  /\ pc \in {"pllcfg", "pllrst", "sample", "command", "answer"}
  /\ rx \in Numbers
  /\ reg \in [ind : Indices, set : Settings, bits : [Starts -> BOOLEAN]]
  /\ start \in [Starts -> BOOLEAN] /\ old \in [Starts -> BOOLEAN]
  /\ status \in Errors
  /\ pll \in [Plls -> [set : Settings, locked : Settings]]
  /\ asked \in Configurations \cup {None}

Init ==
  /\ opened = FALSE /\ waiting = None /\ nr = 0 /\ polled = TRUE
  /\ h2f = <<>> /\ f2h = <<>>
  /\ pc = "pllcfg" /\ rx = 0
  /\ \E i \in Indices, s \in Settings :
       /\ reg = [ind |-> i, set |-> s, bits |-> NoStart]
       /\ pll = [p \in Plls |-> [set |-> s, locked |-> s]]
  /\ start = NoStart /\ old = NoStart
  /\ status = NoErr
  /\ asked = None

-----------------------------------------------------------------------------
(* The host.  It sends a request, waits for the answer or closes the       *)
(* streams, and opens them again no sooner than a request that was taken   *)
(* before has been answered.                                               *)

Open ==
  /\ ~ opened /\ pc # "answer"
  /\ opened' = TRUE
  /\ UNCHANGED <<waiting, nr, polled, fifos, pc, rx, reg, samples, plls>>

SendRequest ==
  /\ opened /\ waiting = None
  /\ h2f' = Append(h2f, nr)
  /\ waiting' = nr /\ nr' = (nr + 1) % 2
  /\ UNCHANGED <<opened, polled, f2h, pc, rx, reg, samples, plls>>

ReadAnswer ==
  /\ f2h # <<>>
  /\ f2h' = Tail(f2h)
  /\ waiting' = None
  /\ UNCHANGED <<opened, nr, polled, h2f, pc, rx, reg, samples, plls>>

CloseWithoutClear ==
  /\ opened
  /\ opened' = FALSE
  /\ h2f' = <<>> /\ UNCHANGED f2h
  /\ waiting' = None
  /\ UNCHANGED <<nr, polled, pc, rx, reg, samples, plls>>

\* A FIFO is in reset while its stream is closed.
Close ==
  /\ opened
  /\ opened' = FALSE
  /\ h2f' = <<>> /\ f2h' = <<>>
  /\ waiting' = None
  /\ UNCHANGED <<nr, polled, pc, rx, reg, samples, plls>>

-----------------------------------------------------------------------------
(* The loop of main.c.                                                     *)

Started(b) == ~ old[b] /\ start[b]

BaseWithoutCase(ind) == 0

\* GetPLLCFG_Base: an index without a reconfiguration block means the first.
GetPLLCFG_Base(ind) == IF ind \in Plls THEN ind ELSE 0

\* The PLLs after ResetPLL, which takes the index as it is.
ResetPLL(p) ==
  IF reg.ind \in Plls THEN [p EXCEPT ![reg.ind].locked = p[reg.ind].set] ELSE p

\* UpdatePLLCFG: the reconfiguration may not report its end in time, and may
\* then have been made or not; the PLL is reset all the same.
UpdatePLLCFG ==
  LET base == GetPLLCFG_Base(reg.ind)
      loaded == [pll EXCEPT ![base].set = reg.set]
  IN  \/ status' \in Errors /\ pll' = ResetPLL(loaded)
      \/ status' = CxTimeout /\ pll' = ResetPLL(pll)

ServeConfiguration ==
  /\ pc = "pllcfg" /\ pc' = "pllrst"
  /\ \/ /\ Started("pllcfg")
        /\ UpdatePLLCFG
        /\ asked' = None
     \/ /\ ~ Started("pllcfg")
        /\ UNCHANGED plls
  /\ UNCHANGED <<host, fifos, rx, reg, samples>>

ServeReset ==
  /\ pc = "pllrst" /\ pc' = "sample"
  /\ \/ /\ Started("pllrst")
        /\ pll' = ResetPLL(pll)
        /\ status' = NoErr
     \/ /\ ~ Started("pllrst")
        /\ UNCHANGED <<pll, status>>
  /\ UNCHANGED <<host, fifos, rx, reg, samples, asked>>

SampleNewTwice ==
  /\ pc = "sample" /\ pc' = "command"
  /\ old' = reg.bits /\ start' = reg.bits
  /\ UNCHANGED <<host, fifos, rx, reg, plls>>

SampleOnlySet ==
  /\ pc = "sample" /\ pc' = "command"
  /\ old' = [b \in Starts |-> old[b] \/ start[b]] /\ start' = reg.bits
  /\ UNCHANGED <<host, fifos, rx, reg, plls>>

SampleStarts ==
  /\ pc = "sample" /\ pc' = "command"
  /\ old' = start /\ start' = reg.bits
  /\ UNCHANGED <<host, fifos, rx, reg, plls>>

NoRequest ==
  /\ pc = "command" /\ h2f = <<>> /\ pc' = "pllcfg"
  /\ UNCHANGED <<host, fifos, rx, reg, samples, plls>>

\* getFifoData.  The reset of the answer FIFO that the loop toggles first
\* (F2H_C0_aclrn) is not connected in pcie_top.
TakeRequest ==
  /\ pc = "command" /\ h2f # <<>> /\ pc' = "answer"
  /\ rx' = Head(h2f) /\ h2f' = Tail(h2f)
  /\ UNCHANGED <<opened, waiting, nr, f2h, samples, status, pll>>

\* CMD_BRDSPI16_WR to the PLL registers.  Index and settings stay as they are
\* between pllcfg_start and the next look at the status.
BrdspiWr ==
  /\ TakeRequest
  /\ \E i \in Indices, s \in Settings, b \in [Starts -> BOOLEAN] :
       /\ polled \/ (i = reg.ind /\ s = reg.set)
       /\ reg' = [ind |-> i, set |-> s, bits |-> b]
       /\ IF b["pllcfg"] /\ ~ reg.bits["pllcfg"]
            THEN asked' = [ind |-> i, set |-> s] /\ polled' = FALSE
            ELSE UNCHANGED <<asked, polled>>

\* CMD_BRDSPI16_RD of the status.
BrdspiRd ==
  /\ TakeRequest
  /\ polled' = TRUE
  /\ UNCHANGED <<reg, asked>>

\* A request that is refused, or changes nothing that is modelled.
OtherRequest ==
  /\ TakeRequest
  /\ UNCHANGED <<polled, reg, asked>>

\* The FIFO of answers holds sixteen of them; a word is not written to a full
\* one, nor kept by one in reset.
WriteAnswer ==
  /\ pc = "answer" /\ pc' = "pllcfg"
  /\ f2h' = IF opened /\ Len(f2h) < 16 THEN Append(f2h, rx) ELSE f2h
  /\ UNCHANGED <<host, h2f, rx, reg, samples, plls>>

Command ==
  \/ NoRequest
  \/ BrdspiWr \/ BrdspiRd \/ OtherRequest
  \/ WriteAnswer

Loop ==
  \/ ServeConfiguration \/ ServeReset \/ SampleStarts
  \/ Command

Host == Open \/ SendRequest \/ ReadAnswer \/ Close

Next == Loop \/ Host

\* The loop never stops.
Spec == Init /\ [][Next]_vars /\ WF_vars(Loop)

-----------------------------------------------------------------------------
(* Properties.                                                             *)

\* The answer that the host reads is to the request it waits for, though
\* answers carry no number: none is left over from before it closed and opened
\* the streams, and there is one for each request.
AnswersAreMine == f2h # <<>> => f2h = <<waiting>> /\ h2f = <<>>

\* A configuration that ends without an error has loaded the settings that the
\* host had written when it set the start bit into the PLL it had chosen, which
\* has locked to them; no other PLL's settings are touched, and no
\* configuration is made that the host did not start, or is made twice.
ConfiguredAsAsked ==
  [][/\ \A p \in Plls : pll'[p].set # pll[p].set =>
          asked # None /\ p = GetPLLCFG_Base(asked.ind)
     /\ asked # None /\ asked' = None /\ asked.ind \in Plls /\ status' = NoErr =>
            pll'[asked.ind] = [set |-> asked.set, locked |-> asked.set]]_vars

\* The host may look at the status once before its configuration has been made,
\* which it cannot tell from the end of one before; its second look, and any
\* later one, is at the status of its own.
SecondLookIsTrue == [][BrdspiRd /\ polled => asked = None]_vars

\* A start is never lost: each configuration that is asked for is made.
StartsAreServed == asked # None ~> asked = None

-----------------------------------------------------------------------------
(* Why the safety properties hold: what is true between any two steps.     *)

\* There is one request at most, in one of three places: before the loop,
\* in it, or behind it as an answer.
OneRequest ==
  /\ waiting = None => h2f = <<>> /\ f2h = <<>>
  /\ waiting # None => opened
  /\ pc = "answer" /\ opened => waiting = rx /\ h2f = <<>> /\ f2h = <<>>
  /\ pc # "answer" /\ waiting # None =>
       \/ h2f = <<waiting>> /\ f2h = <<>>
       \/ h2f = <<>> /\ f2h = <<waiting>>

\* A configuration is asked for exactly as long as its start bit has yet to be
\* sampled, or has been sampled and not been looked at.
StartsSampled ==
  /\ asked # None <=>
       \/ reg.bits["pllcfg"] /\ ~ start["pllcfg"]
       \/ pc \in {"command", "answer", "pllcfg"} /\ Started("pllcfg")
  /\ pc = "command" => (start["pllcfg"] <=> reg.bits["pllcfg"])

\* Until it is made, the registers hold what was asked for; the host may look at
\* the status before that only in the request right before it.
SettingsKept ==
  asked # None =>
    /\ asked = [ind |-> reg.ind, set |-> reg.set]
    /\ polled => pc \in {"answer", "pllcfg"} /\ Started("pllcfg")

InStep == OneRequest /\ StartsSampled /\ SettingsKept
=============================================================================
