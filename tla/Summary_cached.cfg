\* Three reads of one summary and two edits of the bot.
SPECIFICATION Spec
CONSTANTS
    Requests = {1, 2, 3}  Edits = 2
PROPERTY RepeatReadsAreFree
\* Reads and edits are finite.
CHECK_DEADLOCK FALSE
