CONSTANTS
    Inputs <- MCInputs
    Lines = 3
    INPUT_BUF_SIZE = 2
    UART_TX_BUF_SIZE = 2
    FIFO_DEPTH = 2
    ReadSize = 2
SPECIFICATION ConsoleSpec
CHECK_DEADLOCK FALSE
INVARIANTS LocksMaskInterrupts OutputIntact
PROPERTIES ImplementsLineDiscipline ComesToRest
