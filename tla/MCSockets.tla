------------------------------ MODULE MCSockets ------------------------------
(* Instances of Sockets for TLC.                                             *)
EXTENDS Sockets, TLC

CONSTANTS umemFd, fd1, fd2

OwnSockets == Permutations({fd1, fd2})

\* Two sizes of the TX ring; the first is for sockets that share rings.
TxOnly == [rx |-> 0, tx |-> 1, bind_flags |-> {}]
RxAndTx == [rx |-> 1, tx |-> 2, bind_flags |-> {"need_wakeup"}]
Configs == {TxOnly, RxAndTx}
=============================================================================
