----------------------------- MODULE KnightTour -----------------------------
(***************************************************************************)
(* The search for a knight's tour (projects/knight_tour/src/knight_tour.c).*)
(* The recursion is a stack of frames, one per call of TryMoves, with the  *)
(* moves that call has still to try.  Time may run out at every call.      *)
(***************************************************************************)
EXTENDS Integers, Sequences, SequencesExt, FiniteSetsExt

CONSTANT Tours   \* triples: length of the board, whether with heuristic, start

VARIABLES
  board,     \* move number of each square, 0 for none
  visited,   \* the squares in the bit array
  frames,    \* the calls of TryMoves that have not returned
  tour,      \* length of the board, heuristic, start square
  result     \* "running", or what KnightTour returned

tourVars == <<board, visited, frames, tour, result>>

-----------------------------------------------------------------------------
knight_moves_lut == <<<<2, 1>>, <<1, 2>>, <<-1, 2>>, <<-2, 1>>, <<-2, -1>>, <<-1, -2>>, <<1, -2>>, <<2, -1>>>>

Squares == 0 .. tour.len * tour.len - 1
ConvertSquareToIndex(row, col) == tour.len * row + col
IsValidPosition(row, col) == row \in 0 .. tour.len - 1 /\ col \in 0 .. tour.len - 1

\* PrecomputeValidMoves: the targets of a square, in the order of the table.
MovesFrom(idx) ==
  LET row == idx \div tour.len
      col == idx % tour.len
      valid == SelectSeq(knight_moves_lut, LAMBDA m : IsValidPosition(row + m[1], col + m[2]))
  IN  [i \in DOMAIN valid |-> ConvertSquareToIndex(row + valid[i][1], col + valid[i][2])]

GetValidMoves(idx, taken) == SelectSeq(MovesFrom(idx), LAMBDA sq : sq \notin taken)

CountAccessibleMoves(sq, taken) == Len(GetValidMoves(sq, taken))

\* InsertionSortMoves keeps the order of moves of equal accessibility.
InsertionSortMoves(moves, taken) ==
  LET access == [i \in DOMAIN moves |-> CountAccessibleMoves(moves[i], taken \union {moves[i]})]
      rank(i) == Cardinality({j \in DOMAIN moves : access[j] < access[i] \/ (access[j] = access[i] /\ j <= i)})
  IN  [k \in DOMAIN moves |-> moves[CHOOSE i \in DOMAIN moves : rank(i) = k]]

\* The frame of TryMoves at a square, with the moves in the order of trial.
TryMoves(idx, taken) ==
  LET moves == GetValidMoves(idx, taken)
  IN  [at |-> idx, moves |-> IF tour.heuristic THEN InsertionSortMoves(moves, taken) ELSE moves]

-----------------------------------------------------------------------------
TourInit ==
  /\ \E t \in Tours : tour = [len |-> t[1], heuristic |-> t[2], start |-> t[3]]
  /\ board = [sq \in Squares |-> IF sq = tour.start THEN 1 ELSE 0]
  /\ visited = {tour.start}
  /\ frames = << >>
  /\ result = "running"

\* The number of the next move.
MoveCount == Len(frames) + 2

\* KnightTourRecursive at the square that was reached last.
KnightTourRecursive(idx, timeout) ==
  IF timeout THEN result' = "TIMEOUT" /\ UNCHANGED frames
  ELSE IF MoveCount > Cardinality(Squares) THEN result' = "SUCCESS" /\ UNCHANGED frames
  ELSE frames' = Append(frames, TryMoves(idx, visited)) /\ UNCHANGED result

Entered == frames # << >> /\ Last(frames).moves # << >> /\ board[Head(Last(frames).moves)] = MoveCount - 1

\* The call of KnightTour.
FirstCall(timeout) ==
  /\ result = "running" /\ frames = << >>
  /\ KnightTourRecursive(tour.start, timeout)
  /\ UNCHANGED <<board, visited, tour>>

\* Mutant: the square stays in the bit array.
MutUnmark(sq) == visited' = visited

Unmark(sq) == visited' = visited \ {sq}

\* The loop of TryMoves marks the next square ...
TryMove ==
  /\ result = "running" /\ frames # << >> /\ Last(frames).moves # << >> /\ ~Entered
  /\ LET sq == Head(Last(frames).moves) IN
       /\ board' = [board EXCEPT ![sq] = MoveCount - 1]
       /\ visited' = visited \union {sq}
  /\ UNCHANGED <<frames, tour, result>>

\* ... goes on from it ...
GoOn(timeout) ==
  /\ result = "running" /\ Entered
  /\ KnightTourRecursive(Head(Last(frames).moves), timeout)
  /\ UNCHANGED <<board, visited, tour>>

\* ... and, when all moves of a call have failed, its caller takes the square
\* back and has one move less.
Backtrack ==
  /\ result = "running" /\ frames # << >> /\ Last(frames).moves = << >>
  /\ IF Len(frames) = 1
     THEN result' = "FAIL" /\ UNCHANGED <<board, visited, frames>>
     ELSE LET sq == Last(frames).at
              caller == Last(Front(frames))
          IN  /\ board' = [board EXCEPT ![sq] = 0]
              /\ Unmark(sq)
              /\ frames' = Append(Front(Front(frames)), [caller EXCEPT !.moves = Tail(@)])
              /\ UNCHANGED result
  /\ UNCHANGED tour

TourNext ==
  \/ \E timeout \in BOOLEAN : FirstCall(timeout) \/ GoOn(timeout)
  \/ TryMove
  \/ Backtrack

-----------------------------------------------------------------------------
KnightMove(a, b) == b \in Range(MovesFrom(a))
SquareOf(n) == CHOOSE sq \in Squares : board[sq] = n

\* While the search goes back and forth, the numbers on the board are a path
\* of a knight from the start square and the bit array holds the squares of
\* the path; success means a whole tour, and a search that failed leaves the
\* board as it was.
TourIsAPath ==
  /\ visited = {sq \in Squares : board[sq] # 0}
  /\ \A sq1, sq2 \in visited : board[sq1] = board[sq2] => sq1 = sq2
  /\ board[tour.start] = 1
  /\ \A n \in 1 .. Cardinality(visited) - 1 : KnightMove(SquareOf(n), SquareOf(n + 1))
  /\ result = "SUCCESS" => visited = Squares
  /\ result = "FAIL" => visited = {tour.start}

=============================================================================
