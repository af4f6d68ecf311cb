-------------------------------- MODULE MCUsb --------------------------------
(***************************************************************************)
(* The USB driver for TLC.  A behaviour is of one of three instances, with *)
(* other calls, sizes and failures, which program names.                   *)
(***************************************************************************)
EXTENDS UsbSkel

AllCalls == {"read", "write", "flush"}

VARIABLE program    \* the instance this behaviour is of

\* two calls of each process
Calling == INSTANCE UsbSkel WITH
    MaxOps <- 2, Size <- 1, MaxIn <- 2, MaxResets <- 0, DmaMayFail <- FALSE

\* reads of several units, with resets and suspends
Reads == INSTANCE UsbSkel WITH MaxOps <- 1, DmaMayFail <- FALSE

\* a probe that may get no DMA memory; here every call must end
Short == INSTANCE UsbSkel WITH MaxOps <- 1, Size <- 1, MaxIn <- 1

Programs == {"Calling", "Reads", "Short"}

SuiteInit == program \in Programs /\ Init

SuiteNext ==
    /\ UNCHANGED program
    /\ \/ program = "Calling" /\ Calling!Next
       \/ program = "Reads" /\ Reads!Next
       \/ program = "Short" /\ Short!Next

\* Every thread inside the driver goes on, a reset that began is ended, and a
\* URB of a device that is gone is given back.  A waiter is not kept from
\* io_mutex for ever: the mutex hands over to the longest waiter.
Fairness ==
    /\ \A p \in Procs : /\ WF_vars(program = "Short" /\ Short!Driver(p))
                         /\ SF_vars(program = "Short" /\ Short!WriteLock(p))
    /\ WF_vars(program = "Short" /\ Short!HubDrain)
    /\ WF_vars(program = "Short" /\ Short!PostReset)
    /\ WF_vars(program = "Short" /\ Short!Resume)
    /\ WF_vars(/\ program = "Short" /\ ~iface.plugged
               /\ Short!ReadDone \/ Short!WriteDone)
    /\ WF_vars(program = "Short" /\ Short!Disconnect)
    /\ SF_vars(program = "Short" /\ Short!DisconnectFlag)

SuiteSpec == SuiteInit /\ [][SuiteNext]_<<program, vars>> /\ Fairness

----------------------------------------------------------------------------
\* skel_disconnect ends, with readers that wait for an URB with io_mutex held.
CallsEnd == program = "Short" => Short!DisconnectEnds
=============================================================================
