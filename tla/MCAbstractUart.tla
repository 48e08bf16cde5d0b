--------------------------- MODULE MCAbstractUart ---------------------------
EXTENDS AbstractUart

\* The byte the transmit thread has taken but not written yet is still inside.
InFlight == IF txthr \in {"notify", "write"} THEN <<txbyte>> ELSE <<>>

Tx == INSTANCE ByteChannel WITH
    Capacity <- Depth + 1, queue <- InFlight \o tx_fifo, in <- ntx, out <- nout

Rx == INSTANCE ByteChannel WITH
    Capacity <- Depth + 1, queue <- rx_fifo, in <- nrx, out <- nread

\* From txdata to write_data the device is a lossless FIFO channel that holds
\* UART_FIFO_DEPTH bytes and the one being written.
TxIsChannel == Tx!Spec

\* From rxpush to rxdata the device is a lossless FIFO channel; its last slot is
\* the one that stop_threads opens.
RxIsChannel == Rx!Spec

=============================================================================
